---- MODULE Spec2Model ----
(***************************************************************************)
(* Model of SMR-Agents: the consensus orchestrator (SMRAgents.run and its  *)
(* review loop), the result ledger (utils/output_utils.py) and the         *)
(* knowledge base (knowledge_base/preprocessor.py and retriever.py).       *)
(*                                                                         *)
(* Texts are sequences of tokens.  A token stands for a piece of text that *)
(* the code treats as a unit: a marker phrase, the word "Expert", a colon, *)
(* a newline, a blank, a specialist name or a piece of free prose.  Python *)
(* substring tests, find, slicing, strip and lower are computed on the     *)
(* token sequences the way the code computes them on characters.           *)
(***************************************************************************)
EXTENDS Integers, Sequences, FiniteSets, TLC

-----------------------------------------------------------------------------
(* Bounds of the model *)

\* largest dataset size len(self.dataset) explored
MaxItems == 2
\* largest value of args.max_retries explored
MaxRetries == 2
\* number of times the process is started (main() -> run())
MaxRuns == 2
\* largest dataset for which the termination of run() is explored
MaxFairItems == 1
\* longest review text, in tokens, the language model returns
MaxReviewLen == 3
\* number of ledger API calls made in LedgerSpec
MaxCalls == 4
\* largest index / total_count used in LedgerSpec
MaxIndex == 3

\* longest triplet store explored
MaxTriplets == 2
\* largest top_k passed to find_similar_entities
MaxTopK == 2
\* largest max_triplets passed to retrieve_entity_knowledge
MaxBudget == 4
\* length of the long triplet stores
MaxStore == 6
\* most objects and most relationships of a scene graph
MaxObjects == 2
MaxRelations == 2
\* number of calls made in a row on one retriever in ReadOnlySpec
MaxQueries == 3

\* max_iterations = 3 in SMRAgents.run
max_iterations == 3

-----------------------------------------------------------------------------
(* Text primitives *)

PHRASE == "all opinions are consistent"
PHRASE_TITLE == "All Opinions Are Consistent"
FS_MARKER == "Feedback to Specialist Experts:"
FD_MARKER == "Feedback to Diagnostic Specialist:"

\* str.lower() on one token
LowerTok(t) ==
    CASE t = PHRASE_TITLE -> PHRASE
      [] t = FS_MARKER -> "feedback to specialist experts:"
      [] t = FD_MARKER -> "feedback to diagnostic specialist:"
      [] t = "Expert" -> "expert"
      [] t = "Radiologist" -> "radiologist"
      [] t = "Pathologist" -> "pathologist"
      [] OTHER -> t

\* str.lower()
Lower(text) == [i \in 1..Len(text) |-> LowerTok(text[i])]

\* `pat in text` for a one-token pattern
Contains(tok, text) == \E i \in 1..Len(text) : text[i] = tok

\* `pat in text` for a token sequence (the empty pattern is in every text)
IsSubstr(pat, text) ==
    \E s \in 0..(Len(text) - Len(pat)) :
        \A j \in 1..Len(pat) : text[s + j] = pat[j]

\* str.find(tok): 0-based position of the first occurrence, -1 when absent
Find(tok, text) ==
    IF Contains(tok, text)
    THEN (CHOOSE i \in 1..Len(text) :
            text[i] = tok /\ \A j \in 1..(i - 1) : text[j] # tok) - 1
    ELSE -1

\* text[start:end] for start, end >= 0 (empty when end <= start)
Slice(text, start, end) ==
    IF end <= start THEN << >> ELSE SubSeq(text, start + 1, end)

IsSpace(t) == t \in {" ", "\n"}

RECURSIVE LStrip(_)
LStrip(text) ==
    IF text # << >> /\ IsSpace(Head(text)) THEN LStrip(Tail(text)) ELSE text

RECURSIVE RStrip(_)
RStrip(text) ==
    IF text # << >> /\ IsSpace(text[Len(text)])
    THEN RStrip(SubSeq(text, 1, Len(text) - 1))
    ELSE text

\* str.strip()
Strip(text) == RStrip(LStrip(text))

\* all sequences over S of length at most n
RECURSIVE SeqsUpTo(_, _)
SeqsUpTo(S, n) ==
    IF n = 0 THEN { << >> }
    ELSE LET shorter == SeqsUpTo(S, n - 1)
         IN  shorter \cup { Append(s, x) : s \in shorter, x \in S }

-----------------------------------------------------------------------------
(* The result ledger: utils/output_utils.py *)

LedgerIndices(results) == { results[i].index : i \in 1..Len(results) }

\* list.sort(key=lambda x: x["index"]): a stable sort, by insertion
RECURSIVE InsertByIndex(_, _)
InsertByIndex(sorted, r) ==
    IF sorted = << >> THEN << r >>
    ELSE IF sorted[Len(sorted)].index <= r.index THEN Append(sorted, r)
    ELSE Append(InsertByIndex(SubSeq(sorted, 1, Len(sorted) - 1), r),
                sorted[Len(sorted)])

RECURSIVE SortByIndex(_)
SortByIndex(results) ==
    IF results = << >> THEN << >>
    ELSE InsertByIndex(SortByIndex(SubSeq(results, 1, Len(results) - 1)),
                       results[Len(results)])

\* for i, r in enumerate(results): if r["index"] == idx: results[i] = result;
\* break -- else results.append(result)
UpdateOrAppendLoop(results, result) ==
    IF \E i \in 1..Len(results) : results[i].index = result.index
    THEN LET i == CHOOSE k \in 1..Len(results) :
                     /\ results[k].index = result.index
                     /\ \A j \in 1..(k - 1) : results[j].index # result.index
         IN  [results EXCEPT ![i] = result]
    ELSE Append(results, result)

\* a slip: the entry written is not put in its place by index
UpdateOrAppend_NoSort(results, result) == UpdateOrAppendLoop(results, result)

\* a slip: the loop replaces the first entry it meets, whatever its index
UpdateOrAppend_FirstEntry(results, result) ==
    SortByIndex(IF results = << >> THEN << result >>
                ELSE [results EXCEPT ![1] = result])

\* the update-or-append loop followed by results.sort
UpdateOrAppend(results, result) ==
    SortByIndex(UpdateOrAppendLoop(results, result))

\* format_json_out_put: file is [exists, results]; the new content of the file
format_json_out_put(file, question, ground_truth, prediction, idx) ==
    LET result == [index |-> idx, question |-> question,
                   ground_truth |-> ground_truth, prediction |-> prediction]
        results == IF file.exists THEN file.results ELSE << >>
    IN  [exists |-> TRUE, results |-> UpdateOrAppend(results, result)]

\* a slip: the results already in the file are not loaded
LoadResults_Fresh(file) == << >>

\* results = []; if os.path.exists(output_path): results = json.load(f)
LoadResults(file) == IF file.exists THEN file.results ELSE << >>

\* [i for i in range(total_count) if i not in finished_indices], from i on
RECURSIVE RangeNotIn(_, _, _)
RangeNotIn(i, total_count, finished_indices) ==
    IF i >= total_count THEN << >>
    ELSE IF i \in finished_indices
         THEN RangeNotIn(i + 1, total_count, finished_indices)
         ELSE << i >> \o RangeNotIn(i + 1, total_count, finished_indices)

\* a slip: range(1, total_count)
filter_finished_FromOne(total_count, file) ==
    IF ~file.exists
    THEN RangeNotIn(1, total_count, {})
    ELSE RangeNotIn(1, total_count, LedgerIndices(file.results))

\* a slip: an index whose entry is an error result counts as unfinished
filter_finished_RetriesErrors(total_count, file) ==
    IF ~file.exists
    THEN RangeNotIn(0, total_count, {})
    ELSE RangeNotIn(0, total_count,
                    { file.results[k].index :
                        k \in { j \in 1..Len(file.results) :
                                  ~(/\ Len(file.results[j].prediction) >= 1
                                    /\ file.results[j].prediction[1] = "Error: ") } })

\* filter_finished
filter_finished(total_count, file) ==
    IF ~file.exists
    THEN RangeNotIn(0, total_count, {})
    ELSE RangeNotIn(0, total_count, LedgerIndices(file.results))

-----------------------------------------------------------------------------
(* Specialist parsing: SMRAgents.update_specialist_opinions *)

\* first position >= p (1-based) holding tok, 0 when there is none
FirstFrom(tok, text, p) ==
    IF \E i \in p..Len(text) : text[i] = tok
    THEN CHOOSE i \in p..Len(text) :
            text[i] = tok /\ \A j \in p..(i - 1) : text[j] # tok
    ELSE 0

\* greedy \s* from position p: the first position >= p that holds no blank
RECURSIVE SkipSpace(_, _)
SkipSpace(text, p) ==
    IF p <= Len(text) /\ IsSpace(text[p]) THEN SkipSpace(text, p + 1) ELSE p

\* lazy (.*?)(?=Expert\s*|$) from position k: the first position m >= k at
\* which the lookahead holds; $ holds at the end of the text and just before
\* a newline that ends the text
RECURSIVE GroupEnd(_, _)
GroupEnd(text, k) ==
    IF k > Len(text) THEN k
    ELSE IF text[k] = "Expert" THEN k
    ELSE IF k = Len(text) /\ text[k] = "\n" THEN k
    ELSE GroupEnd(text, k + 1)

\* re.findall(r'Expert\s*.*?:\s*(.*?)(?=Expert\s*|$)', text, re.DOTALL),
\* scanning from position p
RECURSIVE FindAllSpecialists(_, _)
FindAllSpecialists(text, p) ==
    LET e == FirstFrom("Expert", text, p)
    IN  IF e = 0 THEN << >>
        ELSE LET c == FirstFrom(":", text, e + 1)
             IN  IF c = 0 THEN << >>
                 ELSE LET k == SkipSpace(text, c + 1)
                          m == GroupEnd(text, k)
                      IN  << SubSeq(text, k, m - 1) >>
                              \o FindAllSpecialists(text, m)

\* specialist_text.split('\n')[0].strip()
SpecialistName(specialist_text) ==
    LET nl == FirstFrom("\n", specialist_text, 1)
    IN  Strip(IF nl = 0 THEN specialist_text
              ELSE SubSeq(specialist_text, 1, nl - 1))

\* "\n\n".join(list)
RECURSIVE JoinBlankLine(_)
JoinBlankLine(list) ==
    IF list = << >> THEN << >>
    ELSE IF Len(list) = 1 THEN list[1]
    ELSE list[1] \o << "\n", "\n" >> \o JoinBlankLine(Tail(list))

\* f"Expert: {specialist_name}\n{updated_opinion}"
UpdatedEntry(specialist_name, updated_opinion) ==
    << "Expert", ":", " " >> \o specialist_name \o << "\n" >> \o updated_opinion

\* f"Expert: {specialist_text}"
KeptEntry(specialist_text) == << "Expert", ":", " " >> \o specialist_text

-----------------------------------------------------------------------------
(* Review analysis: SMRAgents.process_feedback_iteration *)

\* a slip: the test without .lower()
IsConsistent_CaseSensitive(expert_evaluation) ==
    Contains(PHRASE, expert_evaluation)

\* "all opinions are consistent" in expert_evaluation.lower()
IsConsistent(expert_evaluation) == Contains(PHRASE, Lower(expert_evaluation))

\* expert_evaluation[feedback_start:feedback_end].strip()
FeedbackToSpecialists(expert_evaluation) ==
    LET feedback_start == Find(FS_MARKER, expert_evaluation)
        found_end == Find(FD_MARKER, expert_evaluation)
        feedback_end == IF found_end = -1 THEN Len(expert_evaluation)
                        ELSE found_end
    IN  Strip(Slice(expert_evaluation, feedback_start, feedback_end))

\* the two conditions under which update_specialist_opinions is called
CallsUpdate(expert_evaluation) ==
    /\ Contains(FS_MARKER, expert_evaluation)
    /\ FeedbackToSpecialists(expert_evaluation) # << >>

\* a slip: the diagnostic section is looked at only next to a specialist one
HasDiagnosticFeedback_WithSpecialist(expert_evaluation) ==
    Contains(FD_MARKER, expert_evaluation) /\ Contains(FS_MARKER, expert_evaluation)

\* "Feedback to Diagnostic Specialist:" in expert_evaluation
HasDiagnosticFeedback(expert_evaluation) == Contains(FD_MARKER, expert_evaluation)

\* a slip: range(max_iterations + 1)
HasNextIteration_OneMore(iteration) == iteration + 1 <= max_iterations

\* for iteration in range(max_iterations): is there a pass after `iteration`
HasNextIteration(iteration) == iteration + 1 < max_iterations

-----------------------------------------------------------------------------
(* The knowledge base: knowledge_base/preprocessor.py and retriever.py.      *)
(* Entity strings are sequences of characters; a triplet is a tuple          *)
(* << subject, predicate, object >>.                                         *)

\* the entity index, a dict in insertion order: a sequence of
\* [key, triplets] with distinct keys
IndexKeys(index) == [i \in 1..Len(index) |-> index[i].key]
HasKey(index, key) == \E i \in 1..Len(index) : index[i].key = key
KeyPos(index, key) == CHOOSE i \in 1..Len(index) : index[i].key = key

\* entity_index[key]
Bucket(index, key) == index[KeyPos(index, key)].triplets

\* a slip: a triplet the bucket already holds is not appended again
AddToBucket_NoRepeat(index, key, triplet) ==
    IF HasKey(index, key)
    THEN IF \E i \in 1..Len(index[KeyPos(index, key)].triplets) :
                index[KeyPos(index, key)].triplets[i] = triplet
         THEN index
         ELSE [index EXCEPT ![KeyPos(index, key)].triplets = Append(@, triplet)]
    ELSE Append(index, [key |-> key, triplets |-> << triplet >>])

\* if key not in entity_index: entity_index[key] = []
\* entity_index[key].append(triplet)
AddToBucket(index, key, triplet) ==
    IF HasKey(index, key)
    THEN [index EXCEPT ![KeyPos(index, key)].triplets = Append(@, triplet)]
    ELSE Append(index, [key |-> key, triplets |-> << triplet >>])

\* a slip: a triplet is indexed by its subject only
RECURSIVE create_entity_index_SubjectOnly(_)
create_entity_index_SubjectOnly(triplet_list) ==
    IF triplet_list = << >> THEN << >>
    ELSE LET triplet == triplet_list[Len(triplet_list)]
             before == create_entity_index_SubjectOnly(
                           SubSeq(triplet_list, 1, Len(triplet_list) - 1))
         IN  AddToBucket(before, triplet[1], triplet)

\* create_entity_index: for triplet in triplets, index by subject, then by
\* object
RECURSIVE create_entity_index(_)
create_entity_index(triplet_list) ==
    IF triplet_list = << >> THEN << >>
    ELSE LET triplet == triplet_list[Len(triplet_list)]
             before == create_entity_index(
                           SubSeq(triplet_list, 1, Len(triplet_list) - 1))
         IN  AddToBucket(AddToBucket(before, triplet[1], triplet),
                         triplet[3], triplet)

\* str.lower() on one character
UpperLetters ==
    << "A", "B", "C", "D", "E", "F", "G", "H", "I", "J", "K", "L", "M",
       "N", "O", "P", "Q", "R", "S", "T", "U", "V", "W", "X", "Y", "Z" >>
LowerLetters ==
    << "a", "b", "c", "d", "e", "f", "g", "h", "i", "j", "k", "l", "m",
       "n", "o", "p", "q", "r", "s", "t", "u", "v", "w", "x", "y", "z" >>
LowerChar(c) ==
    IF \E i \in 1..26 : UpperLetters[i] = c
    THEN LowerLetters[CHOOSE i \in 1..26 : UpperLetters[i] = c]
    ELSE c

\* str.lower() on a string of characters
LowerStr(text) == [i \in 1..Len(text) |-> LowerChar(text[i])]

\* one character of entity.lower().replace(':', ' ').replace('_', ' ')
NormalizeChar(c) ==
    CASE c = ":" -> " "
      [] c = "_" -> " "
      [] OTHER -> LowerChar(c)

\* entity.lower().replace(':', ' ').replace('_', ' ')
NormalizeEntity(entity) == [i \in 1..Len(entity) |-> NormalizeChar(entity[i])]

\* text.split(): the words between runs of blanks
RECURSIVE SplitWords(_)
SplitWords(text) ==
    LET rest == LStrip(text)
    IN  IF rest = << >> THEN << >>
        ELSE LET sp == FirstFrom(" ", rest, 1)
             IN  IF sp = 0 THEN << rest >>
                 ELSE << SubSeq(rest, 1, sp - 1) >>
                          \o SplitWords(SubSeq(rest, sp + 1, Len(rest)))

\* ngram_range=(3, 5)
MinN == 3
MaxN == 5

\* the n-grams of length n of a padded word w, from offset on (0-based)
RECURSIVE NGramsFrom(_, _, _)
NGramsFrom(w, n, offset) ==
    LET gram == SubSeq(w, offset + 1,
                       IF offset + n < Len(w) THEN offset + n ELSE Len(w))
    IN  IF offset + n < Len(w)
        THEN << gram >> \o NGramsFrom(w, n, offset + 1)
        ELSE << gram >>

\* analyzer='char_wb' on one padded word: the n-grams for n = MinN..MaxN; a
\* word shorter than n is counted once and ends the loop over n
RECURSIVE WordNGrams(_, _)
WordNGrams(w, n) ==
    IF n > MaxN THEN << >>
    ELSE IF n < Len(w) THEN NGramsFrom(w, n, 0) \o WordNGrams(w, n + 1)
    ELSE NGramsFrom(w, n, 0)

\* analyzer='char_wb' on a text: every word is padded with one blank on
\* each side
RECURSIVE WordsNGrams(_)
WordsNGrams(words) ==
    IF words = << >> THEN << >>
    ELSE WordNGrams(<< " " >> \o Head(words) \o << " " >>, MinN)
             \o WordsNGrams(Tail(words))

DocNGrams(text) == WordsNGrams(SplitWords(text))

\* the distinct n-grams of a sequence of n-grams, and the count of one
GramSet(grams) == { grams[i] : i \in 1..Len(grams) }
CountIn(gram, grams) == Cardinality({ i \in 1..Len(grams) : grams[i] = gram })

\* 1000 * ln(i) for i = 1..12, rounded
LnTimes1000 ==
    << 0, 693, 1099, 1386, 1609, 1792, 1946, 2079, 2197, 2303, 2398, 2485 >>

\* TfidfVectorizer.fit on the entity texts: the vocabulary with the weight
\* idf = ln((1 + n) / (1 + df)) + 1 of each n-gram, times 1000 (the
\* vocabularies met stay far below max_features=5000)
FitTfidf(entity_texts) ==
    LET docs == [i \in 1..Len(entity_texts) |-> GramSet(DocNGrams(entity_texts[i]))]
        vocabulary == UNION { docs[i] : i \in 1..Len(entity_texts) }
    IN  [gram \in vocabulary |->
            LnTimes1000[1 + Len(entity_texts)]
              - LnTimes1000[1 + Cardinality({ i \in 1..Len(entity_texts) :
                                                 gram \in docs[i] })]
              + 1000]

\* TfidfVectorizer.transform on one text, before the vector is scaled to
\* length 1: tf * idf over the fitted vocabulary
TransformTfidf(idf, text) ==
    LET grams == DocNGrams(text)
    IN  [gram \in DOMAIN idf |-> CountIn(gram, grams) * idf[gram]]

\* the inner product of two vectors over the n-grams of S
RECURSIVE DotOver(_, _, _)
DotOver(S, u, v) ==
    IF S = {} THEN 0
    ELSE LET gram == CHOOSE g \in S : TRUE
         IN  u[gram] * v[gram] + DotOver(S \ { gram }, u, v)

Dot(u, v) == DotOver(DOMAIN u, u, v)

\* the integer square root of x, sought in lo..hi
RECURSIVE ISqrtIn(_, _, _)
ISqrtIn(x, lo, hi) ==
    IF lo >= hi THEN lo
    ELSE LET mid == (lo + hi + 1) \div 2
         IN  IF mid * mid <= x THEN ISqrtIn(x, mid, hi)
             ELSE ISqrtIn(x, lo, mid - 1)

ISqrt(x) == ISqrtIn(x, 0, IF x < 46340 THEN x ELSE 46340)

\* one row of the tf-idf matrix: the vector of a text and, since the rows
\* are scaled to length 1, its length
TfidfRow(idf, text) ==
    LET vector == TransformTfidf(idf, text)
    IN  [vector |-> vector, length |-> ISqrt(Dot(vector, vector))]

\* cosine_similarity of two rows, times 1000; a row without any n-gram of
\* the vocabulary has similarity 0 to everything
CosineSimilarity(u, v) ==
    IF u.length = 0 \/ v.length = 0 THEN 0
    ELSE Dot(u.vector, v.vector) \div ((u.length * v.length) \div 1000)

\* the retriever before _build_semantic_index has run
NoSemanticIndex ==
    [entity_list |-> << >>, idf |-> << >>, entity_embeddings |-> << >>]

\* _build_semantic_index: entity_list, the fitted vectorizer and the
\* embeddings of the entity texts
build_semantic_index(index) ==
    LET entity_list == IndexKeys(index)
        entity_texts == [i \in 1..Len(entity_list) |->
                            NormalizeEntity(entity_list[i])]
        idf == FitTfidf(entity_texts)
    IN  [entity_list |-> entity_list, idf |-> idf,
         entity_embeddings |-> [i \in 1..Len(entity_list) |->
                                   TfidfRow(idf, entity_texts[i])]]

\* query_vector = self.tfidf_vectorizer.transform([query_text]);
\* cosine_similarity(query_vector, self.entity_embeddings).flatten()
Similarities(query_entity, semantic) ==
    LET query_vector == TfidfRow(semantic.idf, NormalizeEntity(query_entity))
    IN  [i \in 1..Len(semantic.entity_list) |->
            CosineSimilarity(query_vector, semantic.entity_embeddings[i])]

\* if similarities[idx] > 0.3, on similarities times 1000
SimilarityThreshold == 300

\* np.argsort(similarities): the indices in ascending order of similarity;
\* the order of indices with equal similarity is not fixed by the default
\* sort kind, so every ascending order is a possible result
Argsorts(similarities) ==
    { order \in Permutations(1..Len(similarities)) :
          \A i \in 1..(Len(similarities) - 1) :
              similarities[order[i]] <= similarities[order[i + 1]] }

\* seq[-k:]: the last k elements for k > 0, all of them for k = 0, all but
\* the first -k for k < 0
LastSlice(seq, k) ==
    IF k > 0
    THEN SubSeq(seq, (IF Len(seq) > k THEN Len(seq) - k ELSE 0) + 1, Len(seq))
    ELSE SubSeq(seq, (IF 0 - k < Len(seq) THEN 0 - k ELSE Len(seq)) + 1, Len(seq))

\* seq[:m]: the first m elements for m >= 0, all but the last -m for m < 0
FirstSlice(seq, m) ==
    IF m >= 0
    THEN SubSeq(seq, 1, IF m < Len(seq) THEN m ELSE Len(seq))
    ELSE SubSeq(seq, 1, IF Len(seq) + m > 0 THEN Len(seq) + m ELSE 0)

\* seq[::-1]
Reverse(seq) == [i \in 1..Len(seq) |-> seq[Len(seq) + 1 - i]]

\* the loop of find_similar_entities over top_indices
RECURSIVE AboveThreshold(_, _, _)
AboveThreshold(top_indices, similarities, entity_list) ==
    IF top_indices = << >> THEN << >>
    ELSE LET i == Head(top_indices)
             rest == AboveThreshold(Tail(top_indices), similarities, entity_list)
         IN  IF similarities[i] > SimilarityThreshold
             THEN << << entity_list[i], similarities[i] >> >> \o rest
             ELSE rest

\* a slip: the indices are taken from the low end of the sorted order
find_similar_entities_LowestK(similarities, top_k, entity_list, order) ==
    AboveThreshold(FirstSlice(order, top_k), similarities, entity_list)

\* find_similar_entities from np.argsort on, given its result `order`
find_similar_entities(similarities, top_k, entity_list, order) ==
    AboveThreshold(Reverse(LastSlice(order, top_k)), similarities, entity_list)

\* a slip: the share is the budget left divided by top_k = 3
RECURSIVE ExtendWithSimilar_ShareOfTopK(_, _, _, _, _)
ExtendWithSimilar_ShareOfTopK(retrieved_triplets, similar_entities, from, max_triplets, index) ==
    IF from > Len(similar_entities) THEN retrieved_triplets
    ELSE LET similar_entity == similar_entities[from][1]
             remaining_slots == max_triplets - Len(retrieved_triplets)
             extended ==
                 IF HasKey(index, similar_entity) /\ remaining_slots > 0
                 THEN retrieved_triplets
                          \o FirstSlice(Bucket(index, similar_entity),
                                        remaining_slots \div 3)
                 ELSE retrieved_triplets
         IN  ExtendWithSimilar_ShareOfTopK(extended, similar_entities,
                                           from + 1, max_triplets, index)

\* the loop of retrieve_entity_knowledge over similar_entities[from..]
RECURSIVE ExtendWithSimilar(_, _, _, _, _)
ExtendWithSimilar(retrieved_triplets, similar_entities, from, max_triplets, index) ==
    IF from > Len(similar_entities) THEN retrieved_triplets
    ELSE LET similar_entity == similar_entities[from][1]
             remaining_slots == max_triplets - Len(retrieved_triplets)
             extended ==
                 IF HasKey(index, similar_entity) /\ remaining_slots > 0
                 THEN retrieved_triplets
                          \o FirstSlice(Bucket(index, similar_entity),
                                        remaining_slots \div Len(similar_entities))
                 ELSE retrieved_triplets
         IN  ExtendWithSimilar(extended, similar_entities, from + 1,
                               max_triplets, index)

\* a slip: the result is not cut to max_triplets
retrieve_entity_knowledge_Uncut(entity, max_triplets, index, similar_entities) ==
    LET direct == IF HasKey(index, entity)
                  THEN Bucket(index, entity)
                  ELSE << >>
    IN  ExtendWithSimilar(direct, similar_entities, 1, max_triplets, index)

\* retrieve_entity_knowledge, given what find_similar_entities(entity,
\* top_k=3) returned
retrieve_entity_knowledge(entity, max_triplets, index, similar_entities) ==
    LET direct == IF HasKey(index, entity)
                  THEN FirstSlice(Bucket(index, entity), max_triplets \div 2)
                  ELSE << >>
    IN  FirstSlice(ExtendWithSimilar(direct, similar_entities, 1,
                                     max_triplets, index),
                   max_triplets)

\* a.lower() in b.lower() or b.lower() in a.lower()
EitherContains(a, b) ==
    IsSubstr(LowerStr(a), LowerStr(b)) \/ IsSubstr(LowerStr(b), LowerStr(a))

\* the loop of retrieve_relationship_knowledge over self.triplets
RECURSIVE RelatedTriplets(_, _, _, _)
RelatedTriplets(triplet_list, subject, predicate, obj) ==
    IF triplet_list = << >> THEN << >>
    ELSE LET triplet == Head(triplet_list)
             rest == RelatedTriplets(Tail(triplet_list), subject, predicate, obj)
         IN  IF /\ EitherContains(predicate, triplet[2])
                /\ \/ EitherContains(subject, triplet[1])
                   \/ EitherContains(obj, triplet[3])
             THEN << triplet >> \o rest
             ELSE rest

\* a slip: every match is returned
retrieve_relationship_knowledge_Unlimited(subject, predicate, obj, triplet_list) ==
    RelatedTriplets(triplet_list, subject, predicate, obj)

\* retrieve_relationship_knowledge on the store triplet_list
retrieve_relationship_knowledge(subject, predicate, obj, triplet_list) ==
    FirstSlice(RelatedTriplets(triplet_list, subject, predicate, obj), 5)

\* np.argsort when the sort breaks ties by a fixed rule: the ascending
\* order in which, of two indices with equal similarity, the one that is
\* earlier in sort_prio comes first
ArgsortBy(similarities, sort_prio) ==
    CHOOSE order \in Argsorts(similarities) :
        \A i \in 1..(Len(similarities) - 1) :
            similarities[order[i]] = similarities[order[i + 1]]
                => \E a, b \in 1..Len(sort_prio) :
                      /\ sort_prio[a] = order[i]
                      /\ sort_prio[b] = order[i + 1]
                      /\ a < b

\* retrieve_entity_knowledge(entity, max_triplets) on a built retriever
EntityKnowledge(entity, max_triplets, index, semantic, sort_prio) ==
    LET similarities == Similarities(entity, semantic)
    IN  retrieve_entity_knowledge(
            entity, max_triplets, index,
            find_similar_entities(similarities, 3, semantic.entity_list,
                                  ArgsortBy(similarities, sort_prio)))

\* f"{type}:{attr_key}:{attr_value}" for every attribute of an object
RECURSIVE AttributeMentions(_, _)
AttributeMentions(type, attributes) ==
    IF attributes = << >> THEN << >>
    ELSE << type \o << ":" >> \o Head(attributes)[1] \o << ":" >>
                 \o Head(attributes)[2] >>
             \o AttributeMentions(type, Tail(attributes))

\* obj.get('type', 'entity')
TypeOrEntity(obj) ==
    IF obj.has_type THEN obj.type ELSE << "e", "n", "t", "i", "t", "y" >>

\* extract_entities_from_scene_graph: the loop over scene_graph['objects']
RECURSIVE ObjectMentions(_)
ObjectMentions(objects) ==
    IF objects = << >> THEN << >>
    ELSE LET obj == Head(objects)
         IN  (IF obj.has_type THEN << obj.type >> ELSE << >>)
                 \o AttributeMentions(TypeOrEntity(obj), obj.attributes)
                 \o ObjectMentions(Tail(objects))

\* extract_entities_from_scene_graph: the loop over
\* scene_graph['conditions']
RECURSIVE ConditionMentions(_)
ConditionMentions(conditions) ==
    IF conditions = << >> THEN << >>
    ELSE LET condition == Head(conditions)
         IN  (IF condition.has_type THEN << condition.type >> ELSE << >>)
                 \o (IF condition.has_description
                     THEN << condition.description >> ELSE << >>)
                 \o ConditionMentions(Tail(conditions))

extract_entities_from_scene_graph(scene_graph) ==
    ObjectMentions(scene_graph.objects)
        \o ConditionMentions(scene_graph.conditions)

\* a slip: a key the dict already has keeps its value
DictSet_KeepFirst(dict, key, value) ==
    IF HasKey(dict, key) THEN dict
    ELSE Append(dict, [key |-> key, triplets |-> value])

\* knowledge_dict[key] = value, on a dict kept as a sequence of
\* [key, triplets] in insertion order
DictSet(dict, key, value) ==
    IF HasKey(dict, key)
    THEN [dict EXCEPT ![KeyPos(dict, key)].triplets = value]
    ELSE Append(dict, [key |-> key, triplets |-> value])

\* the loop of retrieve_knowledge_for_scene_graph over the entities
RECURSIVE EntityLoop(_, _, _, _, _, _)
EntityLoop(knowledge_dict, entities, max_knowledge_per_entity, index, semantic, sort_prio) ==
    IF entities = << >> THEN knowledge_dict
    ELSE LET entity == Head(entities)
             entity_knowledge ==
                 EntityKnowledge(entity, max_knowledge_per_entity, index,
                                 semantic, sort_prio)
         IN  EntityLoop(IF entity_knowledge # << >>
                        THEN DictSet(knowledge_dict, entity, entity_knowledge)
                        ELSE knowledge_dict,
                        Tail(entities), max_knowledge_per_entity, index,
                        semantic, sort_prio)

\* the loop over scene_graph.get('objects', []) that looks an id up: the
\* type of the last object with that id ('' when it has none), None when
\* no object has the id
RECURSIVE ResolveId(_, _, _)
ResolveId(objects, id, found) ==
    IF objects = << >> THEN found
    ELSE ResolveId(Tail(objects), id,
                   IF Head(objects).id = id
                   THEN [none |-> FALSE,
                         type |-> IF Head(objects).has_type
                                  THEN Head(objects).type ELSE << >>]
                   ELSE found)

NoneEntity == [none |-> TRUE, type |-> << >>]

\* `if subject_entity`: neither None nor ''
Truthy(entity) == ~entity.none /\ entity.type # << >>

\* f"{subject_entity}-{predicate}-{object_entity}"
RelationKey(subject_entity, predicate, object_entity) ==
    subject_entity \o << "-" >> \o predicate \o << "-" >> \o object_entity

\* the loop of retrieve_knowledge_for_scene_graph over the relationships
RECURSIVE RelationLoop(_, _, _, _)
RelationLoop(knowledge_dict, relationships, objects, triplet_list) ==
    IF relationships = << >> THEN knowledge_dict
    ELSE LET relation == Head(relationships)
             subject_entity == ResolveId(objects, relation.subject, NoneEntity)
             object_entity == ResolveId(objects, relation.object, NoneEntity)
             relation_knowledge ==
                 retrieve_relationship_knowledge(
                     subject_entity.type, relation.predicate,
                     object_entity.type, triplet_list)
         IN  RelationLoop(
                 IF /\ Truthy(subject_entity) /\ Truthy(object_entity)
                    /\ relation_knowledge # << >>
                 THEN DictSet(knowledge_dict,
                              RelationKey(subject_entity.type,
                                          relation.predicate,
                                          object_entity.type),
                              relation_knowledge)
                 ELSE knowledge_dict,
                 Tail(relationships), objects, triplet_list)

\* retrieve_knowledge_for_scene_graph on a built retriever
retrieve_knowledge_for_scene_graph(scene_graph, max_knowledge_per_entity, index, semantic, triplet_list, sort_prio) ==
    RelationLoop(
        EntityLoop(<< >>, extract_entities_from_scene_graph(scene_graph),
                   max_knowledge_per_entity, index, semantic, sort_prio),
        scene_graph.relationships, scene_graph.objects, triplet_list)

\* the lines format_retrieved_knowledge appends for the triplets of one key
FormatTriplets(triplet_list) ==
    [i \in 1..Len(triplet_list) |->
        << "- ", triplet_list[i][1], " ", triplet_list[i][2], " ",
           triplet_list[i][3] >>]

\* format_retrieved_knowledge: for every key in insertion order a heading,
\* then one line per triplet; the text is kept as its list of lines, each a
\* list of parts, which "\n".join puts together
RECURSIVE format_retrieved_knowledge(_)
format_retrieved_knowledge(knowledge_dict) ==
    IF knowledge_dict = << >> THEN << >>
    ELSE << << "\n**Knowledge about '", Head(knowledge_dict).key, "':**" >> >>
             \o FormatTriplets(Head(knowledge_dict).triplets)
             \o format_retrieved_knowledge(Tail(knowledge_dict))

\* a slip: the result list starts as the exact bucket itself, so what the
\* call puts into its result lands in the index
IndexAfterEntityKnowledge_Aliased(entity, result, index) ==
    IF HasKey(index, entity)
    THEN [index EXCEPT ![KeyPos(index, entity)].triplets = @ \o result]
    ELSE index

\* self.entity_index after retrieve_entity_knowledge: retrieved_triplets is
\* a new list and the buckets are read through slices, which are copies
IndexAfterEntityKnowledge(entity, result, index) == index

-----------------------------------------------------------------------------
(* State *)

VARIABLES
    ledger,             \* the results file: [exists, results]
    dataset_len,        \* len(self.dataset)
    max_retries,        \* self.max_retries
    scene_graph_refiner,\* self.scene_graph_refiner is not None
    run_no,             \* how many times run() has been started
    pc,                 \* position of run()
    round_count,        \* run: round_count
    todo_list,          \* run: todo_list
    todo_pos,           \* run: position of idx in todo_list (1-based)
    idx,                \* run: idx
    question,           \* run: question (<< >> while unbound)
    answer,             \* run: answer (<< >> while unbound)
    description,        \* run: description
    experts_opinions,   \* run: experts_opinions
    expert_diagnosis,   \* run: expert_diagnosis
    iteration,          \* run: iteration
    expert_evaluation,  \* process_feedback_iteration: expert_evaluation
    specialists,        \* update_specialist_opinions: specialists still to visit
    updated_opinions_list, \* update_specialist_opinions: updated_opinions_list
    log,                \* history: the steps taken for the current item,
                        \* from its load (which carries the index) on
    processed,          \* history: the indices taken up in the current round
    call_no,            \* LedgerSpec, ReadOnlySpec: number of calls made
    last_call,          \* LedgerSpec: the last ledger call and its arguments
    unfinished,         \* LedgerSpec: result of the last filter_finished call
    upserted,           \* LedgerSpec: history, index -> last prediction upserted
    writers,            \* WritersSpec: two processes inside format_json_out_put
    triplets,           \* knowledge base: the triplet store (medical_triplets)
    entity_index,       \* knowledge base: the entity index (entity_index)
    semantic_index,     \* retriever: entity_list, vectorizer and embeddings
    kb_call,            \* the last retriever call, with its result
    cli                 \* main(): the knowledge base path, the answer to the
                        \* prompt and how main() ended

runVars == << dataset_len, max_retries, scene_graph_refiner, run_no, pc,
              round_count, todo_list, todo_pos, idx, question, answer,
              description, experts_opinions, expert_diagnosis, iteration,
              expert_evaluation, specialists, updated_opinions_list, log,
              processed >>

apiVars == << call_no, last_call, unfinished, upserted, writers >>

kbVars == << triplets, entity_index, semantic_index, kb_call >>

mainVars == << cli >>

vars == << ledger, runVars, apiVars, kbVars, mainVars >>

-----------------------------------------------------------------------------
(* Inputs: the dataset and the texts the models return *)

\* self.dataset[i] -> (img, question, answer, img_path)
DatasetQuestion(i) == << "question", i >>
DatasetAnswer(i) == << "truth", i >>

\* messages of the exceptions a step can raise
ErrMsgs == { "timeout" }

\* scene graphs: the vision model's and the refiner's
InitialSceneGraph == << "initial scene graph" >>
RefinedSceneGraph == << "refined scene graph" >>

\* what validate_scene_graph returns: the verdict, and whether the list of
\* warnings is non-empty
ValidationResults == [is_valid : BOOLEAN, warnings : BOOLEAN]

\* specialists' opinions the language model returns
OpinionTexts ==
    { << "Expert", ":", " ", "Radiologist", "\n", "finding", "\n", "\n",
         "Expert", ":", " ", "Pathologist", "\n", "finding" >>,
      << "Expert", " ", "(", "Radiologist", ")", ":", "\n", "finding", "\n" >>,
      << "finding" >> }

DiagnosisTexts == { << "diagnosis" >> }
ReassessedTexts == { << "reassessed diagnosis" >> }
RethinkTexts == { << "revised finding" >> }
FinalAnswers == { << "final answer" >> }

ReviewTokens == { PHRASE, PHRASE_TITLE, FS_MARKER, FD_MARKER, "Radiologist" }
ReviewTexts == SeqsUpTo(ReviewTokens, MaxReviewLen)

\* the claim's notion of a review text that states convergence, in any case
HasPhraseAnyCase(text) ==
    \E i \in 1..Len(text) : text[i] \in { PHRASE, PHRASE_TITLE }

\* the claim's notion of a review text with a diagnostic feedback section
MentionsDiagnostic(text) ==
    \E i \in 1..Len(text) : text[i] = FD_MARKER

\* no process is inside format_json_out_put
NoWriters == [serialized |-> FALSE, proc |-> << >>]

\* main() is not under way: no path given, no prompt shown, no exit
NoCli ==
    [knowledge_base_path |-> << >>, path_exists |-> FALSE,
     prompted |-> FALSE, response |-> << >>, exit |-> "none"]

\* a scene graph without objects, conditions and relationships
NoSceneGraph ==
    [objects |-> << >>, conditions |-> << >>, relationships |-> << >>]

\* no retriever call made yet
NoKbCall ==
    [op |-> "none", entity |-> << >>, predicate |-> << >>, obj |-> << >>,
     scene_graph |-> NoSceneGraph, sort_prio |-> << >>,
     n |-> 0, similarities |-> << >>, similar |-> << >>, knowledge_dict |-> << >>,
     result |-> << >>]

-----------------------------------------------------------------------------
(* History records *)

Step(call, it) ==
    [call |-> call, it |-> it, ok |-> TRUE, phrase |-> FALSE, fd |-> FALSE,
     is_valid |-> << >>, msg |-> "", input |-> << >>]
SceneStep(validated) ==
    [call |-> "SCENE", it |-> 0, ok |-> TRUE, phrase |-> FALSE, fd |-> FALSE,
     is_valid |-> validated, msg |-> "", input |-> << >>]
Raised(call, it, msg) ==
    [call |-> call, it |-> it, ok |-> FALSE, phrase |-> FALSE, fd |-> FALSE,
     is_valid |-> << >>, msg |-> msg, input |-> << >>]
ReviewStep(it, text) ==
    [call |-> "REVIEW", it |-> it, ok |-> TRUE,
     phrase |-> HasPhraseAnyCase(text), fd |-> MentionsDiagnostic(text),
     is_valid |-> << >>, msg |-> "", input |-> << >>]
WriteStep(msg) ==
    [call |-> "WRITE", it |-> 0, ok |-> TRUE, phrase |-> FALSE, fd |-> FALSE,
     is_valid |-> << >>, msg |-> msg, input |-> << >>]
\* the INTEGRATE call, with the text of opinions and diagnosis it was given
IntegrateStep(input) ==
    [call |-> "INTEGRATE", it |-> 0, ok |-> TRUE, phrase |-> FALSE,
     fd |-> FALSE, is_valid |-> << >>, msg |-> "", input |-> input]

ErrorPrediction(msg) == << "Error: ", msg >>

-----------------------------------------------------------------------------
(* SMRAgents.run: the outer rounds *)

NoFile == [exists |-> FALSE, results |-> << >>]

\* the locals of one item's processing; they are assigned again before they
\* are read for the next item, so they are cleared when an item ends
ClearItemLocals ==
    /\ description' = << >>
    /\ experts_opinions' = << >>
    /\ expert_diagnosis' = << >>
    /\ iteration' = 0
    /\ expert_evaluation' = << >>
    /\ specialists' = << >>
    /\ updated_opinions_list' = << >>

KeepReviewLocals ==
    UNCHANGED << expert_evaluation, specialists, updated_opinions_list >>

\* a slip: the loop takes the same item again
NextItem_SameItem ==
    /\ pc' = "load"
    /\ UNCHANGED << todo_pos, idx, round_count >>

\* for idx in todo_list: the loop moves on from the item at todo_pos; after
\* the last item the next round begins
NextItem ==
    IF todo_pos < Len(todo_list)
    THEN /\ todo_pos' = todo_pos + 1
         /\ idx' = todo_list[todo_pos + 1]
         /\ pc' = "load"
         /\ round_count' = round_count
    ELSE /\ pc' = "round_start"
         /\ round_count' = round_count + 1
         /\ UNCHANGED << todo_pos, idx >>

\* except Exception as e: the handler reads the locals question and answer;
\* while they are unbound the handler itself raises and run() is left
Except(steps, raised) ==
    /\ IF question = << >>
       THEN /\ pc' = "aborted"
            /\ log' = Append(steps, raised)
            /\ UNCHANGED << ledger, round_count, todo_pos, idx >>
       ELSE /\ ledger' = format_json_out_put(ledger, question, answer,
                                             ErrorPrediction(raised.msg), idx)
            /\ log' = Append(Append(steps, raised), WriteStep(raised.msg))
            /\ NextItem
    /\ ClearItemLocals
    /\ UNCHANGED << question, answer, todo_list >>
    /\ UNCHANGED << dataset_len, max_retries, scene_graph_refiner, run_no >>
    /\ UNCHANGED << apiVars, kbVars, mainVars >>

\* a step after the item was loaded raises
Raises(call, it) ==
    \E msg \in ErrMsgs :
        /\ Except(log, Raised(call, it, msg))
        /\ UNCHANGED processed

\* a step of one item that raises nothing and writes nothing to the ledger
ItemFrame ==
    /\ UNCHANGED << ledger, round_count, todo_list, todo_pos, idx, processed >>
    /\ UNCHANGED << dataset_len, max_retries, scene_graph_refiner, run_no >>
    /\ UNCHANGED << apiVars, kbVars, mainVars >>

\* for round_count in range(self.max_retries): the range is exhausted
RoundsExhausted ==
    /\ pc = "round_start"
    /\ round_count >= max_retries
    /\ pc' = "returned"
    /\ UNCHANGED << ledger, dataset_len, max_retries, scene_graph_refiner,
                    run_no, round_count, todo_list, todo_pos, idx, question,
                    answer, description, experts_opinions, expert_diagnosis,
                    iteration, expert_evaluation, specialists,
                    updated_opinions_list, log, processed >>
    /\ UNCHANGED << apiVars, kbVars, mainVars >>

\* todo_list = filter_finished(...); if not todo_list: return
RoundStartNothingToDo ==
    /\ pc = "round_start"
    /\ round_count < max_retries
    /\ filter_finished(dataset_len, ledger) = << >>
    /\ todo_list' = << >>
    /\ processed' = << >>
    /\ pc' = "returned"
    /\ UNCHANGED << ledger, dataset_len, max_retries, scene_graph_refiner,
                    run_no, round_count, todo_pos, idx, question, answer,
                    description, experts_opinions, expert_diagnosis,
                    iteration, expert_evaluation, specialists,
                    updated_opinions_list, log >>
    /\ UNCHANGED << apiVars, kbVars, mainVars >>

\* todo_list = filter_finished(...); the for loop takes its first index
RoundStart ==
    /\ pc = "round_start"
    /\ round_count < max_retries
    /\ LET todo == filter_finished(dataset_len, ledger)
       IN  /\ todo # << >>
           /\ todo_list' = todo
           /\ todo_pos' = 1
           /\ idx' = todo[1]
    /\ processed' = << >>
    /\ pc' = "load"
    /\ UNCHANGED << ledger, dataset_len, max_retries, scene_graph_refiner,
                    run_no, round_count, question, answer, description,
                    experts_opinions, expert_diagnosis, iteration,
                    expert_evaluation, specialists, updated_opinions_list,
                    log >>
    /\ UNCHANGED << apiVars, kbVars, mainVars >>

\* the process is started again: main() builds SMRAgents and calls run()
Restart ==
    /\ pc \in { "returned", "aborted" }
    /\ run_no < MaxRuns
    /\ run_no' = run_no + 1
    /\ pc' = "round_start"
    /\ round_count' = 0
    /\ todo_list' = << >>
    /\ todo_pos' = 0
    /\ idx' = 0
    /\ question' = << >>
    /\ answer' = << >>
    /\ log' = << >>
    /\ processed' = << >>
    /\ ClearItemLocals
    /\ UNCHANGED << ledger, dataset_len, max_retries, scene_graph_refiner >>
    /\ UNCHANGED << apiVars, kbVars, mainVars >>

-----------------------------------------------------------------------------
(* SMRAgents.run: one item *)

\* img, question, answer, img_path = self.dataset[idx]
LoadItem ==
    /\ pc = "load"
    /\ question' = DatasetQuestion(idx)
    /\ answer' = DatasetAnswer(idx)
    /\ log' = << Step("LOAD", idx) >>
    /\ processed' = Append(processed, idx)
    /\ pc' = "scene"
    /\ UNCHANGED << ledger, round_count, todo_list, todo_pos, idx >>
    /\ UNCHANGED << dataset_len, max_retries, scene_graph_refiner, run_no >>
    /\ UNCHANGED << description, experts_opinions, expert_diagnosis, iteration >>
    /\ KeepReviewLocals
    /\ UNCHANGED << apiVars, kbVars, mainVars >>

\* self.dataset[idx] raises
LoadItemRaises ==
    /\ pc = "load"
    /\ \E msg \in ErrMsgs :
          /\ Except(<< >>, Raised("LOAD", idx, msg))
          /\ processed' = Append(processed, idx)

\* a slip: warnings of the validation cause the fallback too
generate_and_refine_scene_graph_StrictOnWarnings(initial_scene_graph, refined_scene_graph, validation_results) ==
    IF scene_graph_refiner
    THEN IF ~validation_results.is_valid \/ validation_results.warnings
         THEN initial_scene_graph
         ELSE refined_scene_graph
    ELSE initial_scene_graph

\* generate_and_refine_scene_graph, given the vision model's graph, the
\* refiner's graph and what validate_scene_graph returned for it
generate_and_refine_scene_graph(initial_scene_graph, refined_scene_graph, validation_results) ==
    IF scene_graph_refiner
    THEN IF ~validation_results.is_valid
         THEN initial_scene_graph
         ELSE refined_scene_graph
    ELSE initial_scene_graph

\* description = self.generate_and_refine_scene_graph(question, img, img_path);
\* the history keeps the verdict of the validation when one was made
SceneGraph ==
    /\ pc = "scene"
    /\ \E validation_results \in ValidationResults :
          /\ description' = generate_and_refine_scene_graph(
                                InitialSceneGraph, RefinedSceneGraph,
                                validation_results)
          /\ log' = Append(log, SceneStep(IF scene_graph_refiner
                                          THEN << validation_results.is_valid >>
                                          ELSE << >>))
    /\ pc' = "consult"
    /\ UNCHANGED << question, answer, experts_opinions, expert_diagnosis,
                    iteration >>
    /\ KeepReviewLocals
    /\ ItemFrame

SceneGraphRaises == pc = "scene" /\ Raises("SCENE", 0)

\* expert_consultation = self.l_engine.get_response(...); the text is only
\* passed on to the next prompt
Consult ==
    /\ pc = "consult"
    /\ log' = Append(log, Step("CONSULT", 0))
    /\ pc' = "opine"
    /\ UNCHANGED << question, answer, description, experts_opinions,
                    expert_diagnosis, iteration >>
    /\ KeepReviewLocals
    /\ ItemFrame

ConsultRaises == pc = "consult" /\ Raises("CONSULT", 0)

\* a slip: the diagnosis step is left out
Opine_SkipsDiagnosis ==
    /\ pc = "opine"
    /\ \E text \in OpinionTexts : experts_opinions' = text
    /\ log' = Append(log, Step("OPINE", 0))
    /\ pc' = "review"
    /\ UNCHANGED << question, answer, description, expert_diagnosis, iteration >>
    /\ KeepReviewLocals
    /\ ItemFrame

\* experts_opinions = self.l_engine.get_response(...)
Opine ==
    /\ pc = "opine"
    /\ \E text \in OpinionTexts : experts_opinions' = text
    /\ log' = Append(log, Step("OPINE", 0))
    /\ pc' = "diagnose"
    /\ UNCHANGED << question, answer, description, expert_diagnosis, iteration >>
    /\ KeepReviewLocals
    /\ ItemFrame

OpineRaises == pc = "opine" /\ Raises("OPINE", 0)

\* expert_diagnosis = self.l_engine.get_response(...); the review loop begins
Diagnose ==
    /\ pc = "diagnose"
    /\ \E text \in DiagnosisTexts : expert_diagnosis' = text
    /\ log' = Append(log, Step("DIAGNOSE", 0))
    /\ iteration' = 0
    /\ pc' = "review"
    /\ UNCHANGED << question, answer, description, experts_opinions >>
    /\ KeepReviewLocals
    /\ ItemFrame

DiagnoseRaises == pc = "diagnose" /\ Raises("DIAGNOSE", 0)

-----------------------------------------------------------------------------
(* SMRAgents.process_feedback_iteration and the loop around it *)

\* a slip: the loop is left after any pass, as if should_continue were False
EndPass_StopsAfterFirst ==
    /\ expert_evaluation' = << >>
    /\ iteration' = iteration
    /\ pc' = "integrate"

\* process_feedback_iteration returned True: the loop goes to its next pass,
\* or ends after the last one
EndPass ==
    /\ expert_evaluation' = << >>
    /\ IF HasNextIteration(iteration)
       THEN iteration' = iteration + 1 /\ pc' = "review"
       ELSE iteration' = iteration /\ pc' = "integrate"

\* the part of process_feedback_iteration after the specialist feedback
AfterUpdate(evaluation) ==
    IF HasDiagnosticFeedback(evaluation)
    THEN /\ pc' = "reassess"
         /\ expert_evaluation' = evaluation
         /\ iteration' = iteration
    ELSE EndPass

\* the review call returns a text that states convergence: return ..., False
\* and the loop breaks (the text stays in view until INTEGRATE is issued)
ReviewConverged ==
    /\ pc = "review"
    /\ \E text \in ReviewTexts :
          /\ IsConsistent(text)
          /\ log' = Append(log, ReviewStep(iteration, text))
          /\ expert_evaluation' = text
    /\ pc' = "integrate"
    /\ UNCHANGED << question, answer, description, experts_opinions,
                    expert_diagnosis, iteration, specialists,
                    updated_opinions_list >>
    /\ ItemFrame

\* the review call returns any other text: the feedback sections are looked
\* up, and update_specialist_opinions is entered when there is a slice
ReviewFeedback ==
    /\ pc = "review"
    /\ \E text \in ReviewTexts :
          /\ ~IsConsistent(text)
          /\ log' = Append(log, ReviewStep(iteration, text))
          /\ IF CallsUpdate(text)
             THEN LET found == FindAllSpecialists(experts_opinions, 1)
                  IN  IF found = << >>
                      THEN /\ experts_opinions' = JoinBlankLine(<< >>)
                           /\ specialists' = << >>
                           /\ AfterUpdate(text)
                      ELSE /\ specialists' = found
                           /\ expert_evaluation' = text
                           /\ pc' = "rethink"
                           /\ UNCHANGED << experts_opinions, iteration >>
             ELSE /\ AfterUpdate(text)
                  /\ UNCHANGED << experts_opinions, specialists >>
    /\ updated_opinions_list' = << >>
    /\ UNCHANGED << question, answer, description, expert_diagnosis >>
    /\ ItemFrame

ReviewRaises == pc = "review" /\ Raises("REVIEW", iteration)

\* the for loop of update_specialist_opinions moves past one specialist,
\* whose entry of the new list is `entry`; after the last one the joined
\* list is returned and becomes experts_opinions
SpecialistDone(entry) ==
    LET list == Append(updated_opinions_list, entry)
    IN  IF Tail(specialists) = << >>
        THEN /\ experts_opinions' = JoinBlankLine(list)
             /\ specialists' = << >>
             /\ updated_opinions_list' = << >>
             /\ AfterUpdate(expert_evaluation)
        ELSE /\ specialists' = Tail(specialists)
             /\ updated_opinions_list' = list
             /\ UNCHANGED << experts_opinions, expert_evaluation, iteration, pc >>

\* a slip: the name is looked up in the whole review text, not in the slice
HasFeedback_WholeReview(specialist_text, evaluation) ==
    IsSubstr(SpecialistName(specialist_text), evaluation)

\* if specialist_name in feedback
HasFeedback(specialist_text, evaluation) ==
    IsSubstr(SpecialistName(specialist_text), FeedbackToSpecialists(evaluation))

\* the specialist is named in the feedback: one rethink call
Rethink ==
    /\ pc = "rethink"
    /\ HasFeedback(Head(specialists), expert_evaluation)
    /\ \E updated_opinion \in RethinkTexts :
          SpecialistDone(UpdatedEntry(SpecialistName(Head(specialists)),
                                      updated_opinion))
    /\ log' = Append(log, Step("RETHINK", iteration))
    /\ UNCHANGED << question, answer, description, expert_diagnosis >>
    /\ ItemFrame

RethinkRaises ==
    /\ pc = "rethink"
    /\ HasFeedback(Head(specialists), expert_evaluation)
    /\ Raises("RETHINK", iteration)

\* the specialist is not named in the feedback: keep original opinion
KeepOpinion ==
    /\ pc = "rethink"
    /\ ~HasFeedback(Head(specialists), expert_evaluation)
    /\ SpecialistDone(KeptEntry(Head(specialists)))
    /\ UNCHANGED << question, answer, description, expert_diagnosis, log >>
    /\ ItemFrame

\* expert_diagnosis = self.l_engine.get_response(reassessment prompt)
Reassess ==
    /\ pc = "reassess"
    /\ \E text \in ReassessedTexts : expert_diagnosis' = text
    /\ log' = Append(log, Step("REASSESS", iteration))
    /\ EndPass
    /\ UNCHANGED << question, answer, description, experts_opinions,
                    specialists, updated_opinions_list >>
    /\ ItemFrame

ReassessRaises == pc = "reassess" /\ Raises("REASSESS", iteration)

\* a slip: the diagnosis is put before the opinions
all_expert_opinions_DiagnosisFirst(opinions, diagnosis) ==
    diagnosis \o << "\n", "\n" >> \o opinions

\* all_expert_opinions = f"{experts_opinions}\n\n{expert_diagnosis}"
all_expert_opinions(opinions, diagnosis) ==
    opinions \o << "\n", "\n" >> \o diagnosis

\* final_answer = self.l_engine.get_response(integration prompt), on the
\* opinions and the diagnosis run() holds when the loop is left
Integrate ==
    /\ pc = "integrate"
    /\ \E final_answer \in FinalAnswers :
          /\ ledger' = format_json_out_put(ledger, question, answer,
                                           final_answer, idx)
          /\ log' = Append(Append(log,
                                  IntegrateStep(all_expert_opinions(
                                                    experts_opinions,
                                                    expert_diagnosis))),
                           WriteStep(""))
    /\ NextItem
    /\ ClearItemLocals
    /\ UNCHANGED << question, answer, todo_list, processed >>
    /\ UNCHANGED << dataset_len, max_retries, scene_graph_refiner, run_no >>
    /\ UNCHANGED << apiVars, kbVars, mainVars >>

IntegrateRaises == pc = "integrate" /\ Raises("INTEGRATE", 0)

-----------------------------------------------------------------------------
(* The program *)

Init ==
    /\ ledger = NoFile
    /\ dataset_len \in 0..MaxItems
    /\ max_retries \in 0..MaxRetries
    /\ scene_graph_refiner \in BOOLEAN
    /\ run_no = 1
    /\ pc = "round_start"
    /\ round_count = 0
    /\ todo_list = << >>
    /\ todo_pos = 0
    /\ idx = 0
    /\ question = << >>
    /\ answer = << >>
    /\ description = << >>
    /\ experts_opinions = << >>
    /\ expert_diagnosis = << >>
    /\ iteration = 0
    /\ expert_evaluation = << >>
    /\ specialists = << >>
    /\ updated_opinions_list = << >>
    /\ log = << >>
    /\ processed = << >>
    /\ call_no = 0
    /\ last_call = [op |-> "none", index |-> 0, total_count |-> 0, replaced |-> FALSE]
    /\ unfinished = << >>
    /\ upserted = << >>
    /\ writers = NoWriters
    /\ cli = NoCli
    /\ triplets = << >>
    /\ entity_index = << >>
    /\ semantic_index = NoSemanticIndex
    /\ kb_call = NoKbCall

Next ==
    \/ RoundsExhausted
    \/ RoundStartNothingToDo
    \/ RoundStart
    \/ Restart
    \/ LoadItem
    \/ LoadItemRaises
    \/ SceneGraph
    \/ SceneGraphRaises
    \/ Consult
    \/ ConsultRaises
    \/ Opine
    \/ OpineRaises
    \/ Diagnose
    \/ DiagnoseRaises
    \/ ReviewConverged
    \/ ReviewFeedback
    \/ ReviewRaises
    \/ Rethink
    \/ RethinkRaises
    \/ KeepOpinion
    \/ Reassess
    \/ ReassessRaises
    \/ Integrate
    \/ IntegrateRaises

Spec == Init /\ [][Next]_vars

\* one call of run(), on a dataset of at most MaxFairItems items
FairInit ==
    /\ Init
    /\ dataset_len <= MaxFairItems

\* the steps of one call of run(): the process is not started again
FairNext ==
    \/ RoundsExhausted
    \/ RoundStartNothingToDo
    \/ RoundStart
    \/ LoadItem
    \/ LoadItemRaises
    \/ SceneGraph
    \/ SceneGraphRaises
    \/ Consult
    \/ ConsultRaises
    \/ Opine
    \/ OpineRaises
    \/ Diagnose
    \/ DiagnoseRaises
    \/ ReviewConverged
    \/ ReviewFeedback
    \/ ReviewRaises
    \/ Rethink
    \/ RethinkRaises
    \/ KeepOpinion
    \/ Reassess
    \/ ReassessRaises
    \/ Integrate
    \/ IntegrateRaises

\* run() under the assumption that every model call and every dataset
\* access returns or raises: a step that can be taken is taken
FairSpec == FairInit /\ [][FairNext]_vars /\ WF_vars(FairNext)

-----------------------------------------------------------------------------
(* main(): the check of the knowledge base path, then SMRAgents and run() *)

\* --knowledge_base_path: the default, and the empty string
ProcessedPath == << "knowledge_base/processed" >>
KbPaths == { << >>, ProcessedPath }

\* what the user types at the prompt, as characters
Responses == { << "y" >>, << "Y" >>, << "n" >>, << >> }

\* main() after parse_args, makedirs and preprocess_knowledge_base
\* (--preprocess_kb not given): os.path.exists("") is False
MainInit ==
    /\ ledger = NoFile
    /\ dataset_len \in 0..MaxFairItems
    /\ max_retries \in 0..MaxRetries
    /\ scene_graph_refiner = FALSE
    /\ run_no = 1
    /\ pc = "main"
    /\ round_count = 0
    /\ todo_list = << >>
    /\ todo_pos = 0
    /\ idx = 0
    /\ question = << >>
    /\ answer = << >>
    /\ description = << >>
    /\ experts_opinions = << >>
    /\ expert_diagnosis = << >>
    /\ iteration = 0
    /\ expert_evaluation = << >>
    /\ specialists = << >>
    /\ updated_opinions_list = << >>
    /\ log = << >>
    /\ processed = << >>
    /\ call_no = 0
    /\ last_call = [op |-> "none", index |-> 0, total_count |-> 0, replaced |-> FALSE]
    /\ unfinished = << >>
    /\ upserted = << >>
    /\ writers = NoWriters
    /\ \E knowledge_base_path \in KbPaths, path_exists \in BOOLEAN :
          /\ knowledge_base_path = << >> => ~path_exists
          /\ cli = [knowledge_base_path |-> knowledge_base_path,
                    path_exists |-> path_exists,
                    prompted |-> FALSE, response |-> << >>, exit |-> "none"]
    /\ triplets = << >>
    /\ entity_index = << >>
    /\ semantic_index = NoSemanticIndex
    /\ kb_call = NoKbCall

\* a step of main() before run(): nothing of run() or of the ledger moves
MainFrame ==
    /\ UNCHANGED << ledger, dataset_len, max_retries, run_no, round_count,
                    todo_list, todo_pos, idx, question, answer, description,
                    experts_opinions, expert_diagnosis, iteration,
                    expert_evaluation, specialists, updated_opinions_list,
                    log, processed >>
    /\ UNCHANGED << apiVars, kbVars >>

\* if not os.path.exists(args.knowledge_base_path): the path exists
MainKbFound ==
    /\ pc = "main"
    /\ cli.path_exists
    /\ pc' = "load_dataset"
    /\ UNCHANGED << scene_graph_refiner, cli >>
    /\ MainFrame

\* if response.lower() != 'y': sys.exit(0)
ContinuesAfter(response) == LowerStr(response) = << "y" >>

\* the path does not exist: the warning, the prompt and the answer
MainPrompt ==
    /\ pc = "main"
    /\ ~cli.path_exists
    /\ \E response \in Responses :
          IF ContinuesAfter(response)
          THEN /\ cli' = [cli EXCEPT !.prompted = TRUE, !.response = response]
               /\ pc' = "load_dataset"
          ELSE /\ cli' = [cli EXCEPT !.prompted = TRUE, !.response = response,
                                     !.exit = "SystemExit(0)"]
               /\ pc' = "exited"
    /\ UNCHANGED scene_graph_refiner
    /\ MainFrame

\* dataset = load_dataset(args), when a caller of main() has bound the name
\* in the module: the dataset is the one of dataset_len items
MainLoadDataset ==
    /\ pc = "load_dataset"
    /\ pc' = "construct"
    /\ UNCHANGED << scene_graph_refiner, cli >>
    /\ MainFrame

\* dataset = load_dataset(args): main.py neither defines nor imports
\* load_dataset, so the lookup of the name raises NameError
MainLoadDatasetNameError ==
    /\ pc = "load_dataset"
    /\ pc' = "crashed"
    /\ cli' = [cli EXCEPT !.exit = "NameError"]
    /\ UNCHANGED scene_graph_refiner
    /\ MainFrame

\* hasattr(args, 'knowledge_base_path') and args.knowledge_base_path
WantsRefiner(args) == args.knowledge_base_path # << >>

\* SMRAgents(dataset, args): the refiner is constructed when the path is a
\* non-empty string; then smragents.run() is called
MainConstruct ==
    /\ pc = "construct"
    /\ scene_graph_refiner' = WantsRefiner(cli)
    /\ pc' = "round_start"
    /\ UNCHANGED cli
    /\ MainFrame

\* SceneGraphRefiner(args.knowledge_base_path, self.l_engine) raises
MainConstructRaises ==
    /\ pc = "construct"
    /\ WantsRefiner(cli)
    /\ pc' = "crashed"
    /\ cli' = [cli EXCEPT !.exit = "refiner error"]
    /\ UNCHANGED scene_graph_refiner
    /\ MainFrame

MainNext ==
    \/ MainKbFound
    \/ MainPrompt
    \/ MainLoadDataset
    \/ MainLoadDatasetNameError
    \/ MainConstruct
    \/ MainConstructRaises
    \/ FairNext

MainSpec == MainInit /\ [][MainNext]_vars

-----------------------------------------------------------------------------
(* The ledger on its own: any sequence of calls of its two functions *)

ApiIndices == (0 - 1)..MaxIndex
ApiPredictions == { << "final answer" >>, ErrorPrediction("timeout") }

\* the entry of index i in a list of results that holds one
EntryOf(results, i) ==
    results[CHOOSE k \in 1..Len(results) : results[k].index = i]

LedgerInit ==
    /\ ledger \in { NoFile, [exists |-> TRUE, results |-> << >>] }
    /\ dataset_len = 0
    /\ max_retries = 0
    /\ scene_graph_refiner = FALSE
    /\ run_no = 0
    /\ pc = "api"
    /\ round_count = 0
    /\ todo_list = << >>
    /\ todo_pos = 0
    /\ idx = 0
    /\ question = << >>
    /\ answer = << >>
    /\ description = << >>
    /\ experts_opinions = << >>
    /\ expert_diagnosis = << >>
    /\ iteration = 0
    /\ expert_evaluation = << >>
    /\ specialists = << >>
    /\ updated_opinions_list = << >>
    /\ log = << >>
    /\ processed = << >>
    /\ call_no = 0
    /\ last_call = [op |-> "none", index |-> 0, total_count |-> 0, replaced |-> FALSE]
    /\ unfinished = << >>
    /\ upserted = << >>
    /\ writers = NoWriters
    /\ cli = NoCli
    /\ triplets = << >>
    /\ entity_index = << >>
    /\ semantic_index = NoSemanticIndex
    /\ kb_call = NoKbCall

\* format_json_out_put(question, ground_truth, prediction, idx, output_path)
ApiUpsert ==
    /\ pc = "api"
    /\ call_no < MaxCalls
    /\ \E i \in ApiIndices, prediction \in ApiPredictions :
          /\ ledger' = format_json_out_put(ledger, DatasetQuestion(i),
                                           DatasetAnswer(i), prediction, i)
          /\ last_call' =
                [op |-> "upsert", index |-> i, total_count |-> 0,
                 replaced |-> /\ i \in LedgerIndices(ledger.results)
                              /\ EntryOf(ledger.results, i).prediction # prediction]
          /\ upserted' = [j \in (DOMAIN upserted) \cup { i } |->
                             IF j = i THEN prediction ELSE upserted[j]]
    /\ call_no' = call_no + 1
    /\ UNCHANGED << unfinished, writers, runVars, kbVars, mainVars >>

\* filter_finished(total_count, output_path)
ApiFilterFinished ==
    /\ pc = "api"
    /\ call_no < MaxCalls
    /\ \E total_count \in 0..MaxIndex :
          /\ unfinished' = filter_finished(total_count, ledger)
          /\ last_call' = [op |-> "filter", index |-> 0,
                           total_count |-> total_count, replaced |-> FALSE]
    /\ call_no' = call_no + 1
    /\ UNCHANGED << ledger, upserted, writers, runVars, kbVars, mainVars >>

LedgerNext == ApiUpsert \/ ApiFilterFinished

LedgerSpec == LedgerInit /\ [][LedgerNext]_vars

-----------------------------------------------------------------------------
(* Two processes that write to the same results file: each calls          *)
(* format_json_out_put once, for its own index.  The call reads the file,  *)
(* then writes it; the steps of the two calls interleave unless the calls  *)
(* are serialized by a lock around them.                                   *)

WriterIds == { 1, 2 }
Other(w) == 3 - w

\* what the file holds before the two calls
InitialLedgers ==
    { NoFile,
      [exists |-> TRUE, results |-> << >>],
      format_json_out_put(NoFile, DatasetQuestion(MaxIndex),
                          DatasetAnswer(MaxIndex), << "final answer" >>,
                          MaxIndex) }

WritersInit ==
    /\ ledger \in InitialLedgers
    /\ dataset_len = 0
    /\ max_retries = 0
    /\ scene_graph_refiner = FALSE
    /\ run_no = 0
    /\ pc = "writers"
    /\ round_count = 0
    /\ todo_list = << >>
    /\ todo_pos = 0
    /\ idx = 0
    /\ question = << >>
    /\ answer = << >>
    /\ description = << >>
    /\ experts_opinions = << >>
    /\ expert_diagnosis = << >>
    /\ iteration = 0
    /\ expert_evaluation = << >>
    /\ specialists = << >>
    /\ updated_opinions_list = << >>
    /\ log = << >>
    /\ processed = << >>
    /\ call_no = 0
    /\ last_call = [op |-> "none", index |-> 0, total_count |-> 0, replaced |-> FALSE]
    /\ unfinished = << >>
    /\ upserted = << >>
    /\ cli = NoCli
    /\ \E serialized \in BOOLEAN, i1, i2 \in 0..MaxIndex,
          p1, p2 \in ApiPredictions :
          /\ i1 # i2
          /\ writers =
                [serialized |-> serialized,
                 proc |-> << [at |-> "called", idx |-> i1, prediction |-> p1,
                              results |-> << >>],
                             [at |-> "called", idx |-> i2, prediction |-> p2,
                              results |-> << >>] >>]
    /\ triplets = << >>
    /\ entity_index = << >>
    /\ semantic_index = NoSemanticIndex
    /\ kb_call = NoKbCall

WritersFrame ==
    UNCHANGED << call_no, last_call, unfinished, upserted, runVars, kbVars,
                 mainVars >>

\* format_json_out_put, lines 19-30: the process builds its result and
\* loads what the file holds; under serialization it enters only when the
\* other process is not inside the call
WriterLoad(w) ==
    /\ pc = "writers"
    /\ writers.proc[w].at = "called"
    /\ writers.serialized => writers.proc[Other(w)].at # "loaded"
    /\ writers' = [writers EXCEPT !.proc[w].at = "loaded",
                                  !.proc[w].results = LoadResults(ledger)]
    /\ UNCHANGED ledger
    /\ WritersFrame

\* format_json_out_put, lines 32-48: update or append, sort, and write the
\* list back
WriterSave(w) ==
    /\ pc = "writers"
    /\ writers.proc[w].at = "loaded"
    /\ ledger' =
          [exists |-> TRUE,
           results |->
               UpdateOrAppend(
                   writers.proc[w].results,
                   [index |-> writers.proc[w].idx,
                    question |-> DatasetQuestion(writers.proc[w].idx),
                    ground_truth |-> DatasetAnswer(writers.proc[w].idx),
                    prediction |-> writers.proc[w].prediction])]
    /\ writers' = [writers EXCEPT !.proc[w].at = "returned",
                                  !.proc[w].results = << >>]
    /\ WritersFrame

WritersNext ==
    \/ \E w \in WriterIds : WriterLoad(w)
    \/ \E w \in WriterIds : WriterSave(w)

WritersSpec == WritersInit /\ [][WritersNext]_vars

-----------------------------------------------------------------------------
(* The knowledge base: preprocessing, then a retriever answering calls *)

\* entity strings: two that differ in case only, one that shares n-grams
\* with them, and one without any n-gram
EntityNames ==
    { << "l", "u", "n", "g" >>,
      << "L", "u", "n", "g" >>,
      << "l", "u", "n", "g", "s" >>,
      << ":" >> }

LocatedIn == << "l", "o", "c", "a", "t", "e", "d", "_", "i", "n" >>
HasSize == << "h", "a", "s", "_", "s", "i", "z", "e" >>

Predicates == { LocatedIn }

\* the store [("lung nodule", "located_in", "right lung"),
\* ("lung nodule", "has_size", "2cm")] and the query "Lung Nodule"
LungNodule == << "l", "u", "n", "g", " ", "n", "o", "d", "u", "l", "e" >>
RightLung == << "r", "i", "g", "h", "t", " ", "l", "u", "n", "g" >>
TwoCm == << "2", "c", "m" >>
LungNoduleStore ==
    << << LungNodule, LocatedIn, RightLung >>,
       << LungNodule, HasSize, TwoCm >> >>
LungNoduleQuery == << "L", "u", "n", "g", " ", "N", "o", "d", "u", "l", "e" >>

\* the strings a caller asks about: the entity strings and two that are no
\* key
Queries ==
    EntityNames \cup { << "l", "u", "n", "g", "_", "m", "a", "s", "s" >>,
                       LungNoduleQuery }

TopKs == (0 - 1)..MaxTopK
Budgets == 0..MaxBudget

TripletLists ==
    SeqsUpTo({ << s, p, o >> : s \in EntityNames, p \in Predicates,
                               o \in EntityNames }, MaxTriplets)

\* stores long enough for a scan to find more triplets than it returns:
\* every list of MaxStore triplets over two triplets that differ in each
\* place
LongStoreTriplets ==
    { << << "l", "u", "n", "g" >>, LocatedIn, << "l", "u", "n", "g", "s" >> >>,
      << << ":" >>, HasSize, << "L", "u", "n", "g" >> >> }
LongStores == [1..MaxStore -> LongStoreTriplets]

\* scene graphs: objects with or without an id, a type and attributes,
\* conditions, and relationships between object ids ('' and an empty
\* predicate stand for a missing field, as relation.get gives them)
SceneObjects ==
    { [id |-> "o1", has_type |-> TRUE, type |-> << "l", "u", "n", "g" >>,
       attributes |-> << >>],
      [id |-> "o2", has_type |-> TRUE,
       type |-> << "l", "u", "n", "g", "s" >>, attributes |-> << >>],
      [id |-> "o2", has_type |-> FALSE, type |-> << >>,
       attributes |-> << >>],
      [id |-> "None", has_type |-> TRUE, type |-> << "L", "u", "n", "g" >>,
       attributes |-> << << << "s", "i", "z", "e" >>, TwoCm >> >>] }

SceneConditions ==
    { [has_type |-> TRUE, type |-> << "l", "u", "n", "g" >>,
       has_description |-> TRUE,
       description |-> RelationKey(<< "l", "u", "n", "g" >>, LocatedIn,
                                   << "l", "u", "n", "g", "s" >>)] }

SceneRelations ==
    { [subject |-> "o1", predicate |-> LocatedIn, object |-> "o2"],
      [subject |-> "o1", predicate |-> << >>, object |-> "o1"],
      [subject |-> "o3", predicate |-> LocatedIn, object |-> "o2"] }

SceneGraphs ==
    [objects : SeqsUpTo(SceneObjects, MaxObjects),
     conditions : SeqsUpTo(SceneConditions, 1),
     relationships : SeqsUpTo(SceneRelations, MaxRelations)]

\* max_knowledge_per_entity: the default and a small budget
KnowledgeBudgets == { 1, 5 }

\* the arguments of retrieve_relationship_knowledge
Mass == << "m", "a", "s", "s" >>
RelSubjects == { << "L", "u", "n", "g" >>, Mass }
RelPredicates ==
    { LocatedIn, << "I", "N" >>, << >>,
      << "h", "a", "s", "_", "s", "i", "z", "e", "_", "c", "m" >> }
RelObjects == { << "l", "u", "n", "g", "s" >>, Mass }

KbInit ==
    /\ ledger = NoFile
    /\ dataset_len = 0
    /\ max_retries = 0
    /\ scene_graph_refiner = FALSE
    /\ run_no = 0
    /\ pc = "preprocess"
    /\ round_count = 0
    /\ todo_list = << >>
    /\ todo_pos = 0
    /\ idx = 0
    /\ question = << >>
    /\ answer = << >>
    /\ description = << >>
    /\ experts_opinions = << >>
    /\ expert_diagnosis = << >>
    /\ iteration = 0
    /\ expert_evaluation = << >>
    /\ specialists = << >>
    /\ updated_opinions_list = << >>
    /\ log = << >>
    /\ processed = << >>
    /\ call_no = 0
    /\ last_call = [op |-> "none", index |-> 0, total_count |-> 0, replaced |-> FALSE]
    /\ unfinished = << >>
    /\ upserted = << >>
    /\ writers = NoWriters
    /\ cli = NoCli
    /\ triplets \in TripletLists \cup { LungNoduleStore } \cup LongStores
    /\ entity_index = << >>
    /\ semantic_index = NoSemanticIndex
    /\ kb_call = NoKbCall

KbFrame ==
    /\ UNCHANGED << ledger, dataset_len, max_retries, scene_graph_refiner,
                    run_no, round_count, todo_list, todo_pos, idx, question,
                    answer, description, experts_opinions, expert_diagnosis,
                    iteration, expert_evaluation, specialists,
                    updated_opinions_list, log, processed >>
    /\ UNCHANGED << apiVars, mainVars >>

\* KnowledgeBasePreprocessor.save_processed_data: the index is built from
\* the combined triplets and both are saved
Preprocess ==
    /\ pc = "preprocess"
    /\ entity_index' = create_entity_index(triplets)
    /\ pc' = "saved"
    /\ UNCHANGED << triplets, semantic_index, kb_call >>
    /\ KbFrame

\* KnowledgeBaseRetriever.__init__: both artifacts are loaded and the
\* vectorizer is fitted on the keys of the index; fit_transform raises
\* ValueError when no entity text yields an n-gram (empty vocabulary)
RetrieverInit ==
    /\ pc = "saved"
    /\ LET built == build_semantic_index(entity_index)
       IN  IF DOMAIN built.idf = {}
           THEN pc' = "init_failed" /\ UNCHANGED semantic_index
           ELSE pc' = "ready" /\ semantic_index' = built
    /\ UNCHANGED << triplets, entity_index, kb_call >>
    /\ KbFrame

\* retriever.find_similar_entities(query_entity, top_k)
FindSimilar ==
    /\ pc = "ready"
    /\ \E query_entity \in Queries, top_k \in TopKs :
          LET similarities == Similarities(query_entity, semantic_index)
          IN  \E order \in Argsorts(similarities) :
                  LET similar_entities ==
                          find_similar_entities(similarities, top_k,
                                                semantic_index.entity_list,
                                                order)
                  IN  kb_call' =
                          [op |-> "find_similar_entities",
                           entity |-> query_entity,
                           predicate |-> << >>, obj |-> << >>,
                           scene_graph |-> NoSceneGraph, sort_prio |-> << >>,
                           n |-> top_k,
                           similarities |-> similarities,
                           similar |-> similar_entities,
                           knowledge_dict |-> << >>,
                           result |-> similar_entities]
    /\ pc' = "answered"
    /\ UNCHANGED << triplets, entity_index, semantic_index >>
    /\ KbFrame

\* retriever.retrieve_entity_knowledge(entity, max_triplets)
RetrieveEntity ==
    /\ pc = "ready"
    /\ \E entity \in Queries, max_triplets \in Budgets :
          LET similarities == Similarities(entity, semantic_index)
          IN  \E order \in Argsorts(similarities) :
                  LET similar_entities ==
                          find_similar_entities(similarities, 3,
                                                semantic_index.entity_list,
                                                order)
                  IN  kb_call' =
                          [op |-> "retrieve_entity_knowledge",
                           entity |-> entity, predicate |-> << >>,
                           obj |-> << >>, scene_graph |-> NoSceneGraph,
                           sort_prio |-> << >>, n |-> max_triplets,
                           similarities |-> similarities,
                           similar |-> similar_entities,
                           knowledge_dict |-> << >>,
                           result |-> retrieve_entity_knowledge(
                                          entity, max_triplets, entity_index,
                                          similar_entities)]
    /\ pc' = "answered"
    /\ UNCHANGED << triplets, entity_index, semantic_index >>
    /\ KbFrame

\* retriever.retrieve_relationship_knowledge(subject, predicate, obj)
RetrieveRelationship ==
    /\ pc = "ready"
    /\ \E subject \in RelSubjects, predicate \in RelPredicates,
          obj \in RelObjects :
          kb_call' =
              [op |-> "retrieve_relationship_knowledge", entity |-> subject,
               predicate |-> predicate, obj |-> obj,
               scene_graph |-> NoSceneGraph, sort_prio |-> << >>, n |-> 0,
               similarities |-> << >>, similar |-> << >>,
               knowledge_dict |-> << >>,
               result |-> retrieve_relationship_knowledge(
                              subject, predicate, obj, triplets)]
    /\ pc' = "answered"
    /\ UNCHANGED << triplets, entity_index, semantic_index >>
    /\ KbFrame

\* the caller has the result; the retriever is ready for the next call
Answered ==
    /\ pc = "answered"
    /\ pc' = "ready"
    /\ kb_call' = NoKbCall
    /\ UNCHANGED << triplets, entity_index, semantic_index >>
    /\ KbFrame

\* retriever.retrieve_knowledge_for_scene_graph(scene_graph,
\* max_knowledge_per_entity)
RetrieveForSceneGraph ==
    /\ pc = "ready"
    /\ \E scene_graph \in SceneGraphs,
          max_knowledge_per_entity \in KnowledgeBudgets,
          sort_prio \in Permutations(1..Len(semantic_index.entity_list)) :
          kb_call' =
              [op |-> "retrieve_knowledge_for_scene_graph", entity |-> << >>,
               predicate |-> << >>, obj |-> << >>,
               scene_graph |-> scene_graph, sort_prio |-> sort_prio,
               n |-> max_knowledge_per_entity,
               similarities |-> << >>, similar |-> << >>,
               knowledge_dict |-> << >>,
               result |-> retrieve_knowledge_for_scene_graph(
                              scene_graph, max_knowledge_per_entity,
                              entity_index, semantic_index, triplets,
                              sort_prio)]
    /\ pc' = "answered"
    /\ UNCHANGED << triplets, entity_index, semantic_index >>
    /\ KbFrame

KbNext ==
    \/ Preprocess
    \/ RetrieverInit
    \/ FindSimilar
    \/ RetrieveEntity
    \/ RetrieveRelationship
    \/ Answered

KbSpec == KbInit /\ [][KbNext]_vars

\* the retriever asked for the knowledge of whole scene graphs
SceneStores ==
    SeqsUpTo({ << s, p, o >> : s \in EntityNames, p \in Predicates,
                               o \in EntityNames }, 1)
        \cup { LungNoduleStore }

SceneInit ==
    /\ ledger = NoFile
    /\ dataset_len = 0
    /\ max_retries = 0
    /\ scene_graph_refiner = FALSE
    /\ run_no = 0
    /\ pc = "preprocess"
    /\ round_count = 0
    /\ todo_list = << >>
    /\ todo_pos = 0
    /\ idx = 0
    /\ question = << >>
    /\ answer = << >>
    /\ description = << >>
    /\ experts_opinions = << >>
    /\ expert_diagnosis = << >>
    /\ iteration = 0
    /\ expert_evaluation = << >>
    /\ specialists = << >>
    /\ updated_opinions_list = << >>
    /\ log = << >>
    /\ processed = << >>
    /\ call_no = 0
    /\ last_call = [op |-> "none", index |-> 0, total_count |-> 0, replaced |-> FALSE]
    /\ unfinished = << >>
    /\ upserted = << >>
    /\ writers = NoWriters
    /\ cli = NoCli
    /\ triplets \in SceneStores
    /\ entity_index = << >>
    /\ semantic_index = NoSemanticIndex
    /\ kb_call = NoKbCall

SceneNext ==
    \/ Preprocess
    \/ RetrieverInit
    \/ RetrieveForSceneGraph
    \/ Answered

SceneSpec == SceneInit /\ [][SceneNext]_vars

-----------------------------------------------------------------------------
(* A constructed retriever answering several calls in a row *)

\* stores with keys of equal similarity to a query, and the nodule store
ReadOnlyStores ==
    { LungNoduleStore,
      << << << "L", "u", "n", "g" >>, LocatedIn, << "l", "u", "n", "g" >> >> >>,
      << << << "l", "u", "n", "g" >>, LocatedIn, << "l", "u", "n", "g", "s" >> >>,
         << << "l", "u", "n", "g", "s" >>, HasSize, << "L", "u", "n", "g" >> >> >> }

ReadOnlyQueries == { << "l", "u", "n", "g" >>, << "l", "u", "n", "g", "s" >> }
ReadOnlyTopKs == { 1, 2 }
ReadOnlyBudgets == { 2, 5 }
ReadOnlyRelations ==
    { << << "L", "u", "n", "g" >>, LocatedIn, << "l", "u", "n", "g", "s" >> >>,
      << Mass, << >>, Mass >> }
ReadOnlySceneGraphs ==
    { [objects |-> << [id |-> "o1", has_type |-> TRUE,
                       type |-> << "l", "u", "n", "g" >>,
                       attributes |-> << >>],
                      [id |-> "o2", has_type |-> TRUE,
                       type |-> << "l", "u", "n", "g", "s" >>,
                       attributes |-> << >>] >>,
       conditions |-> << >>,
       relationships |-> << [subject |-> "o1", predicate |-> LocatedIn,
                             object |-> "o2"] >>],
      [objects |-> << [id |-> "o1", has_type |-> TRUE,
                       type |-> LungNodule,
                       attributes |-> << << << "s", "i", "z", "e" >>,
                                            TwoCm >> >>] >>,
       conditions |-> << >>,
       relationships |-> << >>] }

\* the retriever after its construction; the order in which this build's
\* argsort leaves equal similarities is fixed with it (sort_prio)
ReadOnlyInit ==
    /\ ledger = NoFile
    /\ dataset_len = 0
    /\ max_retries = 0
    /\ scene_graph_refiner = FALSE
    /\ run_no = 0
    /\ pc = "ready"
    /\ round_count = 0
    /\ todo_list = << >>
    /\ todo_pos = 0
    /\ idx = 0
    /\ question = << >>
    /\ answer = << >>
    /\ description = << >>
    /\ experts_opinions = << >>
    /\ expert_diagnosis = << >>
    /\ iteration = 0
    /\ expert_evaluation = << >>
    /\ specialists = << >>
    /\ updated_opinions_list = << >>
    /\ log = << >>
    /\ processed = << >>
    /\ call_no = 0
    /\ last_call = [op |-> "none", index |-> 0, total_count |-> 0, replaced |-> FALSE]
    /\ unfinished = << >>
    /\ upserted = << >>
    /\ writers = NoWriters
    /\ cli = NoCli
    /\ triplets \in ReadOnlyStores
    /\ entity_index = create_entity_index(triplets)
    /\ semantic_index = build_semantic_index(entity_index)
    /\ \E sort_prio \in Permutations(1..Len(entity_index)) :
          kb_call = [NoKbCall EXCEPT !.sort_prio = sort_prio]

\* a call changes nothing outside the retriever but the count of calls
ReadOnlyFrame ==
    /\ UNCHANGED << ledger, dataset_len, max_retries, scene_graph_refiner,
                    run_no, round_count, todo_list, todo_pos, idx, question,
                    answer, description, experts_opinions, expert_diagnosis,
                    iteration, expert_evaluation, specialists,
                    updated_opinions_list, log, processed >>
    /\ UNCHANGED << last_call, unfinished, upserted, writers, mainVars >>

\* one more call on the retriever
NextQuery ==
    /\ pc \in { "ready", "answered" }
    /\ call_no < MaxQueries
    /\ call_no' = call_no + 1
    /\ pc' = "answered"

\* the record of a call without arguments and result; the build's sort
\* order stays
NewCall(op) == [NoKbCall EXCEPT !.op = op, !.sort_prio = kb_call.sort_prio]

\* retriever.find_similar_entities(query_entity, top_k)
QueryFindSimilar ==
    /\ NextQuery
    /\ \E query_entity \in ReadOnlyQueries, top_k \in ReadOnlyTopKs :
          LET similarities == Similarities(query_entity, semantic_index)
              similar_entities ==
                  find_similar_entities(
                      similarities, top_k, semantic_index.entity_list,
                      ArgsortBy(similarities, kb_call.sort_prio))
          IN  kb_call' = [NewCall("find_similar_entities")
                              EXCEPT !.entity = query_entity, !.n = top_k,
                                     !.similarities = similarities,
                                     !.similar = similar_entities,
                                     !.result = similar_entities]
    /\ UNCHANGED << triplets, entity_index, semantic_index >>
    /\ ReadOnlyFrame

\* retriever.retrieve_entity_knowledge(entity, max_triplets)
QueryEntityKnowledge ==
    /\ NextQuery
    /\ \E entity \in ReadOnlyQueries, max_triplets \in ReadOnlyBudgets :
          LET result == EntityKnowledge(entity, max_triplets, entity_index,
                                        semantic_index, kb_call.sort_prio)
          IN  /\ kb_call' = [NewCall("retrieve_entity_knowledge")
                                 EXCEPT !.entity = entity, !.n = max_triplets,
                                        !.result = result]
              /\ entity_index' =
                     IndexAfterEntityKnowledge(entity, result, entity_index)
    /\ UNCHANGED << triplets, semantic_index >>
    /\ ReadOnlyFrame

\* retriever.retrieve_relationship_knowledge(subject, predicate, obj)
QueryRelationshipKnowledge ==
    /\ NextQuery
    /\ \E relation \in ReadOnlyRelations :
          kb_call' = [NewCall("retrieve_relationship_knowledge")
                          EXCEPT !.entity = relation[1],
                                 !.predicate = relation[2],
                                 !.obj = relation[3],
                                 !.result = retrieve_relationship_knowledge(
                                                relation[1], relation[2],
                                                relation[3], triplets)]
    /\ UNCHANGED << triplets, entity_index, semantic_index >>
    /\ ReadOnlyFrame

\* retriever.retrieve_knowledge_for_scene_graph(scene_graph,
\* max_knowledge_per_entity)
QuerySceneGraph ==
    /\ NextQuery
    /\ \E scene_graph \in ReadOnlySceneGraphs,
          max_knowledge_per_entity \in ReadOnlyBudgets :
          kb_call' = [NewCall("retrieve_knowledge_for_scene_graph")
                          EXCEPT !.scene_graph = scene_graph,
                                 !.n = max_knowledge_per_entity,
                                 !.result = retrieve_knowledge_for_scene_graph(
                                                scene_graph,
                                                max_knowledge_per_entity,
                                                entity_index, semantic_index,
                                                triplets, kb_call.sort_prio)]
    /\ UNCHANGED << triplets, entity_index, semantic_index >>
    /\ ReadOnlyFrame

\* retriever.format_retrieved_knowledge(knowledge_dict), on the dict the
\* caller holds: the one just retrieved, or the one just formatted
QueryFormat ==
    /\ NextQuery
    /\ kb_call.op \in { "retrieve_knowledge_for_scene_graph",
                        "format_retrieved_knowledge" }
    /\ LET knowledge_dict ==
               IF kb_call.op = "format_retrieved_knowledge"
               THEN kb_call.knowledge_dict
               ELSE kb_call.result
       IN  kb_call' = [NewCall("format_retrieved_knowledge")
                           EXCEPT !.knowledge_dict = knowledge_dict,
                                  !.result = format_retrieved_knowledge(
                                                 knowledge_dict)]
    /\ UNCHANGED << triplets, entity_index, semantic_index >>
    /\ ReadOnlyFrame

ReadOnlyNext ==
    \/ QueryFindSimilar
    \/ QueryEntityKnowledge
    \/ QueryRelationshipKnowledge
    \/ QuerySceneGraph
    \/ QueryFormat

ReadOnlySpec == ReadOnlyInit /\ [][ReadOnlyNext]_vars

-----------------------------------------------------------------------------
(* Properties of the consensus orchestrator *)

IsReview(e) == e.call = "REVIEW"
IsMainStep(e) ==
    e.call \in { "CONSULT", "OPINE", "DIAGNOSE", "REVIEW", "INTEGRATE", "WRITE" }

Reviews == SelectSeq(log, IsReview)
MainSteps == SelectSeq(log, IsMainStep)
AllReturned == \A k \in 1..Len(log) : log[k].ok

\* position in log of the last review call, 0 when there is none
LastReviewPos ==
    IF \E k \in 1..Len(log) : IsReview(log[k])
    THEN CHOOSE k \in 1..Len(log) :
            IsReview(log[k]) /\ \A j \in (k + 1)..Len(log) : ~IsReview(log[j])
    ELSE 0

\* position in log of the first review or integrate call after position k,
\* 0 when there is none
NextPassPos(k) ==
    IF \E j \in (k + 1)..Len(log) : log[j].call \in { "REVIEW", "INTEGRATE" }
    THEN CHOOSE j \in (k + 1)..Len(log) :
            /\ log[j].call \in { "REVIEW", "INTEGRATE" }
            /\ \A i \in (k + 1)..(j - 1) : log[i].call \notin { "REVIEW", "INTEGRATE" }
    ELSE 0

InItem ==
    pc \in { "scene", "consult", "opine", "diagnose", "review", "rethink",
             "reassess", "integrate" }

\* C1: for one item the review step is executed at most 3 times, and the
\* passes carry the iteration numbers 0, 1, 2 in that order, whatever the
\* models return.
C1_ReviewBound ==
    /\ Len(Reviews) <= 3
    /\ \A k \in 1..Len(Reviews) : Reviews[k].it = k - 1

\* three review passes were made for one item, and INTEGRATE followed
C1_Witness ==
    /\ Len(Reviews) = 3
    /\ \E k \in 1..Len(log) : log[k].call = "INTEGRATE" /\ log[k].ok

\* a review call has just returned a text holding the phrase in some case
ReviewReturnsPhrase ==
    /\ pc = "review"
    /\ Len(log') = Len(log) + 1
    /\ IsReview(log'[Len(log')])
    /\ log'[Len(log')].ok
    /\ log'[Len(log')].phrase

\* C2: when the review output of a pass holds "all opinions are consistent"
\* in any letter case, the pass issues no rethink and no reassessment call
\* (whatever feedback sections the text holds), leaves the opinions and the
\* diagnosis as they were, no further review pass is made, and the next
\* model call for the item is INTEGRATE.
C2_ConvergedGoesToIntegrate ==
    /\ [](\A k \in 1..Len(log) :
            (IsReview(log[k]) /\ log[k].ok /\ log[k].phrase)
                => IF k = Len(log) THEN pc = "integrate"
                   ELSE log[k + 1].call = "INTEGRATE")
    /\ [][ReviewReturnsPhrase =>
             /\ experts_opinions' = experts_opinions
             /\ expert_diagnosis' = expert_diagnosis
             /\ pc' = "integrate"]_vars

\* a first pass whose review text holds the phrase in title case together
\* with both feedback sections and a specialist's name: INTEGRATE is next
C2_Witness ==
    /\ pc = "integrate"
    /\ Len(Reviews) = 1
    /\ log[Len(log)].phrase
    /\ Contains(PHRASE_TITLE, expert_evaluation)
    /\ ~Contains(PHRASE, expert_evaluation)
    /\ Contains(FS_MARKER, expert_evaluation)
    /\ Contains(FD_MARKER, expert_evaluation)
    /\ FindAllSpecialists(experts_opinions, 1) # << >>

\* the main steps are a prefix of CONSULT, OPINE, DIAGNOSE, REVIEW(0),
\* REVIEW(1).., INTEGRATE, WRITE
OrderedSteps(m) ==
    \A k \in 1..Len(m) :
        CASE k = 1 -> m[k].call = "CONSULT"
          [] k = 2 -> m[k].call = "OPINE"
          [] k = 3 -> m[k].call = "DIAGNOSE"
          [] k = 4 -> m[k].call = "REVIEW" /\ m[k].it = 0
          [] OTHER ->
               \/ /\ m[k].call = "REVIEW"
                  /\ m[k - 1].call = "REVIEW"
                  /\ m[k].it = m[k - 1].it + 1
               \/ /\ m[k].call = "INTEGRATE"
                  /\ m[k - 1].call = "REVIEW"
               \/ /\ m[k].call = "WRITE"
                  /\ m[k - 1].call = "INTEGRATE"

\* C3: for an item all of whose steps return, the steps occur in the order
\* CONSULT, OPINE, DIAGNOSE, REVIEW(0), further REVIEW passes with
\* consecutive numbers, INTEGRATE once, one ledger write; none is skipped,
\* repeated or reordered, and an item that is over has had all of them.
C3_StepOrder ==
    AllReturned =>
        /\ OrderedSteps(MainSteps)
        /\ (~InItem /\ log # << >>) => log[Len(log)].call = "WRITE"
        /\ pc = "integrate" => MainSteps[Len(MainSteps)].call = "REVIEW"

\* an item went through two review passes and was written to the ledger
C3_Witness ==
    /\ AllReturned
    /\ log # << >>
    /\ log[Len(log)].call = "WRITE"
    /\ Len(Reviews) = 2
    /\ \E k \in 1..Len(ledger.results) :
          ledger.results[k].prediction \in FinalAnswers

\* C4: a review pass i < 2 that did not converge is followed by review pass
\* i + 1, and a pass 2 that did not converge is followed by INTEGRATE, so
\* INTEGRATE is reached also when no review text holds the phrase.
C4_PassSuccession ==
    /\ \A k \in 1..Len(log) :
          (IsReview(log[k]) /\ log[k].ok /\ ~log[k].phrase /\ NextPassPos(k) # 0)
              => LET n == log[NextPassPos(k)]
                 IN  IF log[k].it < 2
                     THEN n.call = "REVIEW" /\ n.it = log[k].it + 1
                     ELSE n.call = "INTEGRATE"
    /\ (InItem /\ LastReviewPos # 0 /\ AllReturned
            /\ ~log[LastReviewPos].phrase /\ pc \notin { "rethink", "reassess" })
          => IF log[LastReviewPos].it < 2
             THEN pc = "review" /\ iteration = log[LastReviewPos].it + 1
             ELSE pc = "integrate"

\* three passes without the phrase in any review text, then INTEGRATE
C4_Witness ==
    /\ Len(Reviews) = 3
    /\ \A k \in 1..3 : Reviews[k].ok /\ ~Reviews[k].phrase
    /\ log[Len(log)].call = "WRITE"
    /\ log[Len(log) - 1].call = "INTEGRATE"

-----------------------------------------------------------------------------
(* Properties of the outer rounds *)

HasEntry(i) == i \in LedgerIndices(ledger.results)

IsErrorPrediction(prediction) ==
    Len(prediction) >= 1 /\ prediction[1] = "Error: "

\* the index the log is about: its first entry is the load of that index
LoggedIndex == log[1].it

\* todo_list has just been computed: at the first item of a round, or when
\* run() returned because the list was empty
TodoListFresh ==
    \/ pc = "load" /\ todo_pos = 1 /\ processed = << >>
    \/ pc = "returned" /\ round_count < max_retries

\* the round (or the run with it) has ended
RoundOver == pc \in { "round_start", "returned", "aborted" }

StrictlyAscending(seq) ==
    \A k \in 1..(Len(seq) - 1) : seq[k] < seq[k + 1]

\* C5: a failure at any step of an item (loading it, the scene graph, a
\* model call) is caught, a ledger entry "Error: <message>" is written for
\* the item's index and the run goes on with the next index; no failure
\* ends the run, also not one of the first item processed.
C5_FailureIsRecorded ==
    \A k \in 1..Len(log) :
        ~log[k].ok =>
            /\ pc \in { "load", "round_start", "returned" }
            /\ HasEntry(LoggedIndex)
            /\ EntryOf(ledger.results, LoggedIndex).prediction
                   = ErrorPrediction(log[k].msg)

\* C6: the todo list of every round holds every index that has no ledger
\* entry or whose entry is still an error result, so a failed item is tried
\* again in the next round.
C6_ErrorsAreRetried ==
    TodoListFresh =>
        \A i \in 0..(dataset_len - 1) :
            (~HasEntry(i)
               \/ IsErrorPrediction(EntryOf(ledger.results, i).prediction))
                => \E k \in 1..Len(todo_list) : todo_list[k] = i

\* C7: every round recomputes the unfinished indices and processes exactly
\* those, ascending and each once; an index with a ledger entry gets no
\* step in that round; an empty list ends the run with nothing processed.
C7_RoundProcessesTodoList ==
    /\ StrictlyAscending(todo_list)
    /\ Len(processed) <= Len(todo_list)
    /\ processed = SubSeq(todo_list, 1, Len(processed))
    /\ InItem => ~HasEntry(idx) /\ idx = LoggedIndex
    /\ TodoListFresh =>
          \A i \in 0..(dataset_len - 1) :
              HasEntry(i) <=> ~(\E k \in 1..Len(todo_list) : todo_list[k] = i)
    /\ RoundOver => processed = todo_list

\* C11: every ledger entry the orchestrator writes under index i, a final
\* answer or an error result, carries the question and the ground truth of
\* dataset item i, and nothing of an item processed before it.
C11_EntryCarriesOwnItem ==
    \A k \in 1..Len(ledger.results) :
        /\ ledger.results[k].question = DatasetQuestion(ledger.results[k].index)
        /\ ledger.results[k].ground_truth
               = DatasetAnswer(ledger.results[k].index)

-----------------------------------------------------------------------------
(* Properties of the ledger *)

\* C8: from an empty ledger, after any sequence of upserts the ledger holds
\* exactly one entry for each index ever upserted, with the prediction of
\* the latest upsert of that index, in strictly ascending order of index.
C8_LedgerIsLatestPerIndex ==
    LET results == ledger.results
    IN  /\ LedgerIndices(results) = DOMAIN upserted
        /\ \A i \in DOMAIN upserted :
              /\ Cardinality({ k \in 1..Len(results) : results[k].index = i }) = 1
              /\ EntryOf(results, i).prediction = upserted[i]
        /\ \A k \in 1..(Len(results) - 1) :
              results[k].index < results[k + 1].index

\* an index was upserted a second time with another prediction, below an
\* index that was upserted before it
C8_Witness ==
    /\ last_call.op = "upsert"
    /\ last_call.replaced
    /\ Len(ledger.results) >= 3
    /\ last_call.index < ledger.results[Len(ledger.results)].index
    /\ last_call.index = ledger.results[1].index

\* C9: filter_finished(N) returns, ascending and without repetition, exactly
\* the indices of 0..N-1 that have no ledger entry: all of 0..N-1 for an
\* empty or absent ledger; entries outside 0..N-1 change nothing.
C9_UnfinishedIsComplement ==
    last_call.op = "filter" =>
        /\ StrictlyAscending(unfinished)
        /\ { unfinished[k] : k \in 1..Len(unfinished) }
              = { i \in 0..(last_call.total_count - 1) : ~HasEntry(i) }

\* filter_finished(3) with entries for 1 and for an index outside 0..2
C9_Witness ==
    /\ last_call.op = "filter"
    /\ last_call.total_count = 3
    /\ HasEntry(1)
    /\ HasEntry(3) \/ HasEntry(0 - 1)
    /\ unfinished = << 0, 2 >>

\* C10: an upsert for index i leaves the entry of every other index as it
\* was, and no call removes an index from the ledger.
C10_OtherEntriesKept ==
    [][\A j \in LedgerIndices(ledger.results) :
          /\ j \in LedgerIndices(ledger'.results)
          /\ (last_call'.op = "filter" \/ j # last_call'.index)
                => EntryOf(ledger'.results, j) = EntryOf(ledger.results, j)
      ]_vars

\* an existing index was overwritten while two other indices had entries
C10_Witness ==
    /\ last_call.op = "upsert"
    /\ last_call.replaced
    /\ Len(ledger.results) >= 3
    /\ last_call.index = ledger.results[2].index

-----------------------------------------------------------------------------
(* Properties of one review pass *)

\* a specialist-rethink call was issued for the current item
RethinkIssued == \E k \in 1..Len(log) : log[k].call = "RETHINK"

\* C12: a review pass leaves alone the opinion of every specialist the
\* feedback slice does not name; as long as no specialist was named in any
\* pass (no rethink call was issued), the opinions text passed to the later
\* steps is the text the specialists returned.
C12_UnnamedOpinionsKept ==
    (pc \in { "review", "reassess", "integrate" } /\ ~RethinkIssued)
        => experts_opinions \in OpinionTexts


\* the specialists parsed from the opinions the pass started with (the text
\* is replaced only when update_specialist_opinions returns)
PassFound == FindAllSpecialists(experts_opinions, 1)

\* the specialist's name occurs verbatim in the feedback slice of the review
NamedInSlice(specialist_text) ==
    \E s \in 0..Len(FeedbackToSpecialists(expert_evaluation)) :
        LET name == SpecialistName(specialist_text)
            slice == FeedbackToSpecialists(expert_evaluation)
        IN  /\ s + Len(name) <= Len(slice)
            /\ SubSeq(slice, s + 1, s + Len(name)) = name

\* how many of the first n parsed specialists are named in the slice
NamedCount(n) == Cardinality({ j \in 1..n : NamedInSlice(PassFound[j]) })

\* the rethink calls that returned in the current pass
PassRethinks ==
    Cardinality({ k \in (LastReviewPos + 1)..Len(log) :
                      log[k].call = "RETHINK" /\ log[k].ok })

\* the entry of the new opinions list is right for the specialist: the name
\* and the rethink call's text when named in the slice, the old text if not
EntryFor(entry, specialist_text) ==
    IF NamedInSlice(specialist_text)
    THEN \E updated_opinion \in RethinkTexts :
            entry = << "Expert", ":", " " >> \o SpecialistName(specialist_text)
                        \o << "\n" >> \o updated_opinion
    ELSE entry = << "Expert", ":", " " >> \o specialist_text

\* the pass has dealt with the first Len(updated_opinions_list) specialists
UpdateInStep ==
    LET done == Len(updated_opinions_list)
    IN  /\ Contains(FS_MARKER, expert_evaluation)
        /\ FeedbackToSpecialists(expert_evaluation) # << >>
        /\ ~Contains(PHRASE, Lower(expert_evaluation))
        /\ done < Len(PassFound)
        /\ specialists = SubSeq(PassFound, done + 1, Len(PassFound))
        /\ \A j \in 1..done : EntryFor(updated_opinions_list[j], PassFound[j])
        /\ PassRethinks = NamedCount(done)

\* update_specialist_opinions returns: the last specialist is dealt with
UpdateReturns ==
    (pc = "rethink" /\ pc' \in { "review", "reassess", "integrate" })
        => /\ PassRethinks' = NamedCount(Len(PassFound))
           /\ \E entry \in { experts_opinions' } \cup
                           { SubSeq(experts_opinions', k, Len(experts_opinions')) :
                                 k \in 1..Len(experts_opinions') } :
                 /\ EntryFor(entry, PassFound[Len(PassFound)])
                 /\ experts_opinions'
                        = JoinBlankLine(Append(updated_opinions_list, entry))

\* a rethink call is issued only from inside update_specialist_opinions
RethinkOnlyInUpdate ==
    (Len(log') = Len(log) + 1 /\ log'[Len(log')].call = "RETHINK"
         /\ log'[Len(log')].ok)
        => pc = "rethink"

\* C13: in a non-converged pass with a non-empty feedback slice the rethink
\* calls are one per parsed specialist whose name occurs in the slice, in
\* parsing order, each replacing that specialist's opinion only; no rethink
\* call is issued when the review has no specialist feedback section.
C13_RethinkPerNamedSpecialist ==
    /\ [](pc = "rethink" => UpdateInStep)
    /\ [][UpdateReturns /\ RethinkOnlyInUpdate]_vars

\* two specialists parsed, the first named in the slice and re-asked, the
\* second not named
C13_Witness ==
    /\ pc = "rethink"
    /\ Len(updated_opinions_list) = 1
    /\ PassRethinks = 1
    /\ NamedInSlice(PassFound[1])
    /\ ~NamedInSlice(Head(specialists))


\* the part of the review text from its first specialist-feedback marker up
\* to the first diagnostic-feedback marker after it, or to the end of the text
SectionOfSpecialists(text) ==
    LET start == FirstFrom(FS_MARKER, text, 1)
        next == FirstFrom(FD_MARKER, text, start + 1)
    IN  SubSeq(text, start, IF next = 0 THEN Len(text) ELSE next - 1)

\* C14: whenever the review text holds the specialist-feedback marker, the
\* slice taken from it starts at that marker and ends at the first
\* diagnostic-feedback marker after it, or at the end of the text, wherever
\* the two markers stand.
C14_SliceIsSpecialistSection ==
    (pc \in { "rethink", "reassess" } /\ Contains(FS_MARKER, expert_evaluation))
        => FeedbackToSpecialists(expert_evaluation)
               = Strip(SectionOfSpecialists(expert_evaluation))


\* position in log just after the pass that the review at position k began
PassEnd(k) == IF NextPassPos(k) = 0 THEN Len(log) + 1 ELSE NextPassPos(k)

\* positions of the reassessment calls issued in that pass
ReassessAt(k) ==
    { j \in (k + 1)..(PassEnd(k) - 1) : log[j].call = "REASSESS" }

\* how many reassessment calls the pass must hold
ReassessDue(k) == IF log[k].fd THEN 1 ELSE 0

\* how many revised opinions a text holds
RevisedCount(text) ==
    Cardinality({ i \in 1..Len(text) : << text[i] >> \in RethinkTexts })

\* C15: a non-converged review pass issues exactly one diagnosis
\* reassessment call if the review text holds the diagnostic-feedback
\* marker and none otherwise (the diagnosis is then left as it was); the
\* call comes after all specialist updates of the pass and is made with the
\* opinions as that pass updated them.
C15_ReassessOncePerDiagnosticFeedback ==
    /\ \A k \in 1..Len(log) :
          (IsReview(log[k]) /\ log[k].ok /\ ~log[k].phrase)
              => /\ Cardinality(ReassessAt(k)) <= ReassessDue(k)
                 /\ (NextPassPos(k) # 0
                        \/ (k = LastReviewPos /\ AllReturned
                               /\ pc \in { "review", "integrate" }))
                       => Cardinality(ReassessAt(k)) = ReassessDue(k)
                 /\ \A j \in ReassessAt(k) :
                       \A i \in (k + 1)..(PassEnd(k) - 1) :
                           log[i].call = "RETHINK" => i < j
    /\ pc = "reassess"
          => /\ specialists = << >>
             /\ updated_opinions_list = << >>
             /\ log[LastReviewPos].fd
             /\ RevisedCount(experts_opinions) >= PassRethinks
    /\ (pc \in { "review", "rethink", "reassess", "integrate" }
           /\ \A k \in 1..Len(log) : log[k].call = "REASSESS" => ~log[k].ok)
          => expert_diagnosis \in DiagnosisTexts

\* a pass with a specialist update followed by the reassessment call, and
\* the next pass begun
C15_Witness ==
    \E k \in 1..(Len(log) - 3) :
        /\ IsReview(log[k]) /\ log[k].ok /\ ~log[k].phrase /\ log[k].fd
        /\ log[k + 1].call = "RETHINK" /\ log[k + 1].ok
        /\ log[k + 2].call = "REASSESS" /\ log[k + 2].ok
        /\ log[k + 3].call = "REVIEW"


-----------------------------------------------------------------------------
(* Properties of the scene graph step *)

\* the scene graph step of the current item returned and its result is held
SceneReturned(k) ==
    /\ log[k].call = "SCENE" /\ log[k].ok
    /\ pc \in { "consult", "opine", "diagnose", "review", "rethink",
                "reassess", "integrate" }

\* C16: generate_and_refine_scene_graph returns the vision model's initial
\* scene graph whenever validation of the refined graph reports is_valid =
\* false and whenever no refiner is configured; it returns the refined graph
\* only when validation reports is_valid = true, warnings or not.
C16_FallbackToInitialSceneGraph ==
    \A k \in 1..Len(log) :
        SceneReturned(k)
            => /\ description \in { InitialSceneGraph, RefinedSceneGraph }
               /\ log[k].is_valid = << FALSE >> => description = InitialSceneGraph
               /\ ~scene_graph_refiner => description = InitialSceneGraph
               /\ log[k].is_valid = << TRUE >> => description = RefinedSceneGraph
               /\ description = RefinedSceneGraph
                     => scene_graph_refiner /\ log[k].is_valid = << TRUE >>

\* a refiner is configured, validation failed and the initial graph is used
C16_Witness ==
    /\ pc = "consult"
    /\ scene_graph_refiner
    /\ log[Len(log)].call = "SCENE"
    /\ log[Len(log)].is_valid = << FALSE >>
    /\ description = InitialSceneGraph


-----------------------------------------------------------------------------
(* Properties of the knowledge base *)

\* the index has been built from the store
IndexBuilt == pc \in { "saved", "ready", "init_failed", "answered" }

\* the triplets of the store, and how often one occurs in a sequence
StoreTriplets == { triplets[j] : j \in 1..Len(triplets) }
Occurrences(triplet, seq) ==
    Cardinality({ j \in 1..Len(seq) : seq[j] = triplet })

\* C17: for every entity string, every max_triplets >= 0 and every store,
\* retrieve_entity_knowledge returns at most max_triplets triplets, and
\* each of them is a triplet of the store.
C17_AtMostBudgetFromStore ==
    (kb_call.op = "retrieve_entity_knowledge" /\ kb_call.n >= 0)
        => /\ Len(kb_call.result) <= kb_call.n
           /\ \A i \in 1..Len(kb_call.result) :
                 kb_call.result[i] \in StoreTriplets

\* the budget is used up, by the entity's own bucket and by a similar one
C17_Witness ==
    /\ kb_call.op = "retrieve_entity_knowledge"
    /\ kb_call.n >= 2
    /\ Len(kb_call.result) = kb_call.n
    /\ HasKey(entity_index, kb_call.entity)
    /\ Len(Bucket(entity_index, kb_call.entity)) > kb_call.n

\* the sequence sub keeps the order of seq: its elements can be found in
\* seq at positions that never step back
InOrderOf(sub, seq) ==
    \E f \in [1..Len(sub) -> 1..Len(seq)] :
        /\ \A i \in 1..Len(sub) : sub[i] = seq[f[i]]
        /\ \A i \in 1..(Len(sub) - 1) : f[i] <= f[i + 1]

\* C18: create_entity_index puts every triplet (s, p, o) of the list into
\* the bucket of s and into the bucket of o; a bucket holds only triplets
\* that have its key as subject or object, in the order of the list.
C18_IndexCoversSubjectAndObject ==
    IndexBuilt
        => /\ \A j \in 1..Len(triplets) :
                 \A key \in { triplets[j][1], triplets[j][3] } :
                     /\ HasKey(entity_index, key)
                     /\ \E i \in 1..Len(Bucket(entity_index, key)) :
                           Bucket(entity_index, key)[i] = triplets[j]
           /\ \A b \in 1..Len(entity_index) :
                 /\ \A i \in 1..Len(entity_index[b].triplets) :
                       entity_index[b].key
                           \in { entity_index[b].triplets[i][1],
                                 entity_index[b].triplets[i][3] }
                 /\ InOrderOf(entity_index[b].triplets, triplets)

\* two different triplets share an entity, one as its subject and one as
\* its object, and stand in its bucket in the order of the list
C18_Witness ==
    /\ pc = "saved"
    /\ Len(triplets) = 2
    /\ triplets[1] # triplets[2]
    /\ triplets[1][3] = triplets[2][1]
    /\ triplets[1][1] # triplets[1][3]
    /\ Bucket(entity_index, triplets[2][1]) = << triplets[1], triplets[2] >>


\* the keys of the index whose bucket holds the triplet
KeysHolding(triplet) ==
    { entity_index[b].key : b \in { i \in 1..Len(entity_index) :
          Occurrences(triplet, entity_index[i].triplets) > 0 } }

\* C19 as stated: every triplet occurrence of the store appears under
\* exactly two distinct index keys, its subject and its object, once in each
\* of the two buckets, also when its subject equals its object.
C19_TwoKeysOnceEach ==
    IndexBuilt
        => \A j \in 1..Len(triplets) :
              /\ KeysHolding(triplets[j]) = { triplets[j][1], triplets[j][3] }
              /\ Cardinality(KeysHolding(triplets[j])) = 2
              /\ \A key \in KeysHolding(triplets[j]) :
                    Occurrences(triplets[j], Bucket(entity_index, key))
                        = Occurrences(triplets[j], triplets)

\* C19 amended: every triplet occurrence whose subject and object differ
\* appears under exactly two index keys, its subject and its object, once in
\* each of the two buckets; an occurrence whose subject equals its object
\* appears under that one key only, twice in its bucket.
C19_TwoKeysUnlessSelfLoop ==
    IndexBuilt
        => \A j \in 1..Len(triplets) :
              /\ KeysHolding(triplets[j]) = { triplets[j][1], triplets[j][3] }
              /\ IF triplets[j][1] # triplets[j][3]
                 THEN /\ Cardinality(KeysHolding(triplets[j])) = 2
                      /\ \A key \in KeysHolding(triplets[j]) :
                            Occurrences(triplets[j], Bucket(entity_index, key))
                                = Occurrences(triplets[j], triplets)
                 ELSE /\ Cardinality(KeysHolding(triplets[j])) = 1
                      /\ Occurrences(triplets[j],
                                     Bucket(entity_index, triplets[j][1]))
                            = 2 * Occurrences(triplets[j], triplets)

\* a store with a triplet whose subject is its object, next to one with two
\* different entities
C19_Witness ==
    /\ pc = "saved"
    /\ \E j \in 1..Len(triplets) : triplets[j][1] = triplets[j][3]
    /\ \E j \in 1..Len(triplets) : triplets[j][1] # triplets[j][3]


\* the similarity to the query of the indexed entity, as computed for the
\* last call
SimilarityOf(entity) ==
    kb_call.similarities[CHOOSE i \in 1..Len(semantic_index.entity_list) :
                             semantic_index.entity_list[i] = entity]

\* the entities of the last call's result
Returned == { kb_call.result[i][1] : i \in 1..Len(kb_call.result) }

\* the indexed entities
Indexed ==
    { semantic_index.entity_list[i] : i \in 1..Len(semantic_index.entity_list) }

\* C20: for every query and every k, each entity find_similar_entities
\* returns is an indexed entity with similarity above 0.3 to the normalized
\* query, the results are in non-increasing order of similarity, and no
\* indexed entity left out has a greater similarity than a returned one;
\* when no entity is above the threshold the result is empty.
C20_TopKAboveThreshold ==
    kb_call.op = "find_similar_entities"
        => /\ \A i \in 1..Len(kb_call.result) :
                 /\ kb_call.result[i][1] \in Indexed
                 /\ kb_call.result[i][2] = SimilarityOf(kb_call.result[i][1])
                 /\ kb_call.result[i][2] > 300
           /\ \A i \in 1..(Len(kb_call.result) - 1) :
                 kb_call.result[i][2] >= kb_call.result[i + 1][2]
           /\ \A omitted \in Indexed \ Returned :
                 \A entity \in Returned :
                     SimilarityOf(omitted) <= SimilarityOf(entity)
           /\ (\A entity \in Indexed : SimilarityOf(entity) <= 300)
                 => kb_call.result = << >>
           /\ pc = "answered"

\* two entities returned in falling similarity, and an entity above the
\* threshold left out because k is reached
C20_Witness ==
    /\ kb_call.op = "find_similar_entities"
    /\ Len(kb_call.result) = 2
    /\ kb_call.result[1][2] > kb_call.result[2][2]
    /\ \E omitted \in Indexed \ Returned : SimilarityOf(omitted) > 300


\* C21: for every query and every k >= 0, find_similar_entities(query, k)
\* returns at most k entities; in particular it returns none for k = 0.
C21_AtMostKEntities ==
    (kb_call.op = "find_similar_entities" /\ kb_call.n >= 0)
        => Len(kb_call.result) <= kb_call.n


\* the place of an indexed entity in the last call's result, 0 when it is
\* not returned
RankOf(entity) ==
    IF entity \in Returned
    THEN CHOOSE i \in 1..Len(kb_call.result) : kb_call.result[i][1] = entity
    ELSE 0

\* C22: when two indexed entities have equal similarity to the query,
\* find_similar_entities ranks the one that is earlier in entity_list before
\* the other, and when only one of them fits within the top k it is the
\* earlier one that is returned.
C22_TiesInIndexOrder ==
    (kb_call.op = "find_similar_entities" /\ kb_call.n >= 1)
        => \A i, j \in 1..Len(semantic_index.entity_list) :
              (i < j /\ kb_call.similarities[i] = kb_call.similarities[j])
                  => LET earlier == semantic_index.entity_list[i]
                         later == semantic_index.entity_list[j]
                     IN  /\ later \in Returned => earlier \in Returned
                         /\ (earlier \in Returned /\ later \in Returned)
                               => RankOf(earlier) < RankOf(later)


\* C23: for every indexed entity key e and every k >= 1,
\* find_similar_entities(e, k) returns e itself as its first result, with
\* the greatest similarity any indexed entity has to e; also when another
\* key normalizes to the same text as e.
C23_KeyIsItsOwnBestMatch ==
    (/\ kb_call.op = "find_similar_entities"
     /\ kb_call.n >= 1
     /\ kb_call.entity \in Indexed)
        => /\ kb_call.result # << >>
           /\ kb_call.result[1][1] = kb_call.entity
           /\ \A i \in 1..Len(kb_call.similarities) :
                 kb_call.similarities[i] <= kb_call.result[1][2]


\* the first `share` triplets of the bucket of each similar entity from
\* position `from` on, one after the other
RECURSIVE SharesOf(_, _, _)
SharesOf(similar_entities, from, share) ==
    IF from > Len(similar_entities) THEN << >>
    ELSE FirstSlice(Bucket(entity_index, similar_entities[from][1]), share)
             \o SharesOf(similar_entities, from + 1, share)

\* the result with an even share: the exact step, then for every similar
\* entity up to floor(remaining / number of similar entities) triplets of
\* its bucket, remaining being measured once after the exact step
EvenShareResult(entity, max_triplets, similar_entities) ==
    LET direct == IF HasKey(entity_index, entity)
                  THEN FirstSlice(Bucket(entity_index, entity),
                                  max_triplets \div 2)
                  ELSE << >>
        remaining == max_triplets - Len(direct)
    IN  IF similar_entities = << >> THEN direct
        ELSE FirstSlice(direct \o SharesOf(similar_entities, 1,
                                           remaining \div Len(similar_entities)),
                        max_triplets)

\* C24: retrieve_entity_knowledge(e, n) first takes the first
\* min(floor(n/2), bucket size) triplets of the exact bucket of e when e is
\* an index key, and then gives each of the (at most 3) similar entities the
\* same share of the budget that remains after the exact step, up to
\* floor(remaining / number of similar entities) triplets each, remaining
\* being measured once, after the exact step.
C24_EvenShareOfRemainingBudget ==
    kb_call.op = "retrieve_entity_knowledge"
        => /\ Len(kb_call.similar) <= 3
           /\ kb_call.result
                  = EvenShareResult(kb_call.entity, kb_call.n, kb_call.similar)


\* the triplets of the last call's result
ResultTriplets == { kb_call.result[i] : i \in 1..Len(kb_call.result) }

\* the query of the last call has no bucket of its own
NoExactBucket == ~HasKey(entity_index, kb_call.entity)

\* C25: with the store [("lung nodule", "located_in", "right lung"),
\* ("lung nodule", "has_size", "2cm")], retrieve_entity_knowledge("Lung
\* Nodule", 4) returns both triplets; and a query with no exact bucket whose
\* best similar entity has a bucket of b triplets gets all b of them
\* whenever b <= floor(n / number of similar entities).
C25_FuzzyMatchGetsWholeBucket ==
    kb_call.op = "retrieve_entity_knowledge"
        => /\ (/\ triplets = LungNoduleStore
               /\ kb_call.entity = LungNoduleQuery
               /\ kb_call.n = 4)
                 => /\ triplets[1] \in ResultTriplets
                    /\ triplets[2] \in ResultTriplets
           /\ (/\ NoExactBucket
               /\ kb_call.similar # << >>
               /\ kb_call.n >= 0)
                 => LET best == Bucket(entity_index, kb_call.similar[1][1])
                    IN  Len(best) <= kb_call.n \div Len(kb_call.similar)
                            => FirstSlice(kb_call.result, Len(best)) = best

\* the query "Lung Nodule" with budget 4 on that store: the only similar
\* entity is "lung nodule", and both triplets are returned
C25_Witness ==
    /\ kb_call.op = "retrieve_entity_knowledge"
    /\ triplets = LungNoduleStore
    /\ kb_call.entity = LungNoduleQuery
    /\ kb_call.n = 4
    /\ NoExactBucket
    /\ kb_call.similar[1][1] = LungNodule
    /\ kb_call.result = LungNoduleStore


\* one string is, case aside, a substring of the other
SubstringEitherWay(a, b) ==
    \/ \E s \in 0..(Len(b) - Len(a)) :
          \A i \in 1..Len(a) : LowerChar(a[i]) = LowerChar(b[s + i])
    \/ \E s \in 0..(Len(a) - Len(b)) :
          \A i \in 1..Len(b) : LowerChar(b[i]) = LowerChar(a[s + i])

\* the positions of the store triplets that match the last relationship
\* query
MatchingPositions ==
    { j \in 1..Len(triplets) :
        /\ SubstringEitherWay(kb_call.predicate, triplets[j][2])
        /\ \/ SubstringEitherWay(kb_call.entity, triplets[j][1])
           \/ SubstringEitherWay(kb_call.obj, triplets[j][3]) }

\* the i-th smallest element of a set of positions
NthOf(S, i) == CHOOSE j \in S : Cardinality({ k \in S : k < j }) = i - 1

\* the smaller of two numbers
Min(a, b) == IF a < b THEN a ELSE b

\* C26: retrieve_relationship_knowledge(subject, predicate, object) returns
\* exactly the first min(5, m) triplets, in store order, of the m store
\* triplets whose predicate is a case-insensitive substring of the query
\* predicate or contains it, and whose subject is in that relation with the
\* query subject or whose object is in that relation with the query object;
\* the store is not modified.
C26_FirstFiveRelatedInStoreOrder ==
    /\ [](kb_call.op = "retrieve_relationship_knowledge"
            => /\ Len(kb_call.result) = Min(5, Cardinality(MatchingPositions))
               /\ \A i \in 1..Len(kb_call.result) :
                     kb_call.result[i] = triplets[NthOf(MatchingPositions, i)])
    /\ [][kb_call'.op = "retrieve_relationship_knowledge"
            => triplets' = triplets]_vars

\* six triplets of the store match, of two kinds, and the first five are
\* returned in store order
C26_Witness ==
    /\ kb_call.op = "retrieve_relationship_knowledge"
    /\ Cardinality(MatchingPositions) = 6
    /\ Len(kb_call.result) = 5
    /\ kb_call.result = SubSeq(triplets, 1, 5)
    /\ triplets[1] # triplets[2]


-----------------------------------------------------------------------------
(* Properties of the retrieval for a scene graph *)

\* the elements of a sequence
Range(seq) == { seq[i] : i \in 1..Len(seq) }

\* the entity mentions of the scene graph of the last call
Mentions == Range(extract_entities_from_scene_graph(kb_call.scene_graph))

\* the objects of that scene graph which declare the id with a non-empty
\* type
TypedObjects(id) ==
    { obj \in Range(kb_call.scene_graph.objects) :
          obj.id = id /\ obj.has_type /\ obj.type # << >> }

\* the labels "{subjectType}-{predicate}-{objectType}" a relationship can
\* have: one for every pair of typed objects its two ids name
LabelsOf(relation) ==
    { RelationKey(s.type, relation.predicate, o.type) :
          s \in TypedObjects(relation.subject),
          o \in TypedObjects(relation.object) }

\* what the relationship retrieval gives for a relationship whose ids
\* resolve, as a pair << label, triplets >>; << >> when an id does not
\* resolve or nothing is found
RelationRetrieval(relation) ==
    LET s == ResolveId(kb_call.scene_graph.objects, relation.subject, NoneEntity)
        o == ResolveId(kb_call.scene_graph.objects, relation.object, NoneEntity)
        found == retrieve_relationship_knowledge(s.type, relation.predicate,
                                                 o.type, triplets)
    IN  IF Truthy(s) /\ Truthy(o) /\ found # << >>
        THEN << RelationKey(s.type, relation.predicate, o.type), found >>
        ELSE << >>

\* the positions of the relationships whose retrieval produces the key
ProducedBy(key) ==
    { r \in 1..Len(kb_call.scene_graph.relationships) :
          LET got == RelationRetrieval(kb_call.scene_graph.relationships[r])
          IN  got # << >> /\ got[1] = key }

\* the largest element of a non-empty set of numbers
Largest(S) == CHOOSE m \in S : \A k \in S : k <= m

\* C27: the mapping returned by retrieve_knowledge_for_scene_graph never
\* maps a key to an empty triplet list; every key is an extracted entity
\* mention or the label of a relationship whose subject id and object id
\* both name declared objects with a non-empty type; a relationship with an
\* unresolved endpoint contributes no key; and when two retrievals produce
\* the same key the value kept is that of the later one, entity mentions
\* being processed before relationships.
C27_KnowledgeDictKeysAndValues ==
    kb_call.op = "retrieve_knowledge_for_scene_graph"
        => \A e \in 1..Len(kb_call.result) :
              LET key == kb_call.result[e].key
                  value == kb_call.result[e].triplets
              IN  /\ value # << >>
                  /\ \A other \in 1..Len(kb_call.result) :
                        kb_call.result[other].key = key => other = e
                  /\ \/ key \in Mentions
                     \/ \E r \in 1..Len(kb_call.scene_graph.relationships) :
                           key \in LabelsOf(kb_call.scene_graph.relationships[r])
                  /\ IF ProducedBy(key) # {}
                     THEN value = RelationRetrieval(
                                      kb_call.scene_graph.relationships[
                                          Largest(ProducedBy(key))])[2]
                     ELSE /\ key \in Mentions
                          /\ value = EntityKnowledge(key, kb_call.n,
                                                     entity_index,
                                                     semantic_index,
                                                     kb_call.sort_prio)

\* a condition is described by the very text that labels a relationship:
\* both retrievals find triplets, they differ, and the key holds what the
\* relationship retrieval found; another relationship names an id no object
\* declares and its label is no key
C27_Witness ==
    /\ kb_call.op = "retrieve_knowledge_for_scene_graph"
    /\ \E e \in 1..Len(kb_call.result) :
          LET key == kb_call.result[e].key
          IN  /\ key \in Mentions
              /\ ProducedBy(key) # {}
              /\ EntityKnowledge(key, kb_call.n, entity_index, semantic_index,
                                 kb_call.sort_prio)
                     \notin { << >>, kb_call.result[e].triplets }
    /\ \E r \in 1..Len(kb_call.scene_graph.relationships) :
          /\ TypedObjects(kb_call.scene_graph.relationships[r].subject) = {}
          /\ TypedObjects(kb_call.scene_graph.relationships[r].object) # {}


-----------------------------------------------------------------------------
(* Properties of concurrent writers of the ledger *)

\* both calls of format_json_out_put have returned
BothReturned ==
    /\ pc = "writers"
    /\ \A w \in WriterIds : writers.proc[w].at = "returned"

\* the ledger holds the entry the process w has written
EntryPresent(w) ==
    \E k \in 1..Len(ledger.results) :
        /\ ledger.results[k].index = writers.proc[w].idx
        /\ ledger.results[k].prediction = writers.proc[w].prediction

\* C28: the ledger upsert is a read-modify-write that is not atomic.  When
\* the two upserts (for different indices) are serialized, both entries are
\* in the ledger after both calls have returned; without serialization the
\* entry of the process that wrote last is there, and the other entry may
\* be missing (the state C28_Witness describes is reachable).
C28_SerializedUpsertsKeepBoth ==
    BothReturned
        => /\ writers.proc[1].idx # writers.proc[2].idx
           /\ writers.serialized => \A w \in WriterIds : EntryPresent(w)
           /\ \E w \in WriterIds : EntryPresent(w)

\* without serialization both processes have loaded the file before either
\* wrote it, and after both calls the entry of one of them is missing
C28_Witness ==
    /\ BothReturned
    /\ ~writers.serialized
    /\ \E w \in WriterIds : ~EntryPresent(w) /\ EntryPresent(Other(w))


-----------------------------------------------------------------------------
(* Termination of run() *)

\* run() has returned, or was left by an exception
RunOver == pc \in { "returned", "aborted" }

\* how many entries of the log are calls of that kind in pass it
CallsOf(call, it) ==
    Cardinality({ k \in 1..Len(log) : log[k].call = call /\ log[k].it = it })

\* the outer loop is in round round_count < max_retries while it works
RoundsBound ==
    /\ round_count <= max_retries
    /\ (pc = "load" \/ InItem) => round_count < max_retries

\* a round takes up every index at most once
ItemsBound ==
    /\ Len(processed) <= dataset_len
    /\ \A i, j \in 1..Len(processed) : processed[i] = processed[j] => i = j

\* the model calls for one item: each of the five single steps at most
\* once, at most 3 review passes, and in a pass at most one rethink call per
\* parsed specialist and one reassessment
CallsBound ==
    /\ \A call \in { "SCENE", "CONSULT", "OPINE", "DIAGNOSE", "INTEGRATE" } :
          CallsOf(call, 0) <= 1
    /\ \A k \in 1..Len(log) : log[k].it \in 0..(3 - 1) \/ log[k].call = "LOAD"
    /\ \A it \in 0..(3 - 1) :
          /\ CallsOf("REVIEW", it) <= 1
          /\ CallsOf("REASSESS", it) <= 1
          /\ CallsOf("RETHINK", it) > 0 => CallsOf("REVIEW", it) = 1
    /\ pc = "rethink"
          => CallsOf("RETHINK", iteration) + Len(specialists)
                 <= Len(FindAllSpecialists(experts_opinions, 1))

\* a rethink call belongs to the pass that is under way, and none is added
\* to a pass that is over
RethinkInCurrentPass ==
    \A it \in 0..(3 - 1) :
        CallsOf("RETHINK", it)' > CallsOf("RETHINK", it)
            => /\ pc = "rethink"
               /\ it = iteration
               /\ CallsOf("RETHINK", it)' = CallsOf("RETHINK", it) + 1

-----------------------------------------------------------------------------
(* Properties of main() when the knowledge base is missing *)

\* the prompt was shown and the user answered y
AnsweredYes == cli.prompted /\ LowerStr(cli.response) = << "y" >>

\* main() ended before SMRAgents.run() was entered
EndedBeforeRun == pc \in { "exited", "crashed" }

\* C30: when the knowledge base path does not exist and the user answers
\* 'y' to the prompt, the run proceeds without knowledge augmentation: no
\* scene graph refiner is constructed and every scene description is the
\* initial scene graph; when the user answers anything else, the process
\* exits before any dataset item is processed.
C30_ContinueWithoutKnowledgeBase ==
    /\ AnsweredYes
          => /\ ~EndedBeforeRun
             /\ ~scene_graph_refiner
             /\ \A k \in 1..Len(log) :
                   SceneReturned(k) => description = InitialSceneGraph
    /\ (cli.prompted /\ ~AnsweredYes)
          => /\ pc = "exited"
             /\ cli.exit = "SystemExit(0)"
             /\ ledger = NoFile
             /\ log = << >>
             /\ processed = << >>

\* the first half alone, for a run that did get as far as SMRAgents.run():
\* no refiner is constructed
C30_NoRefinerAfterYes ==
    (AnsweredYes /\ ~EndedBeforeRun /\ pc \notin { "main", "load_dataset", "construct" })
        => ~scene_graph_refiner

\* the second half alone: any other answer ends the process before any
\* item is taken up
C30_OtherAnswerExits ==
    (cli.prompted /\ ~AnsweredYes)
        => /\ pc = "exited"
           /\ ledger = NoFile
           /\ log = << >>
           /\ processed = << >>


-----------------------------------------------------------------------------
(* Properties of a retriever answering calls in a row *)

\* the call made in this step has the operation and the arguments of the
\* call before it
SameQueryAgain ==
    /\ kb_call.op # "none"
    /\ kb_call'.op = kb_call.op
    /\ kb_call'.entity = kb_call.entity
    /\ kb_call'.predicate = kb_call.predicate
    /\ kb_call'.obj = kb_call.obj
    /\ kb_call'.scene_graph = kb_call.scene_graph
    /\ kb_call'.n = kb_call.n
    /\ kb_call'.knowledge_dict = kb_call.knowledge_dict

\* a step of the constructed retriever leaves the store, every bucket of
\* the index and the list of indexed entities as they were, and a repeated
\* query has the result it had
ReadOnlyStep ==
    /\ triplets' = triplets
    /\ Len(entity_index') = Len(entity_index)
    /\ \A i \in 1..Len(entity_index) :
          /\ entity_index'[i].key = entity_index[i].key
          /\ entity_index'[i].triplets = entity_index[i].triplets
    /\ semantic_index'.entity_list = semantic_index.entity_list
    /\ SameQueryAgain => kb_call'.result = kb_call.result

-----------------------------------------------------------------------------
(* Properties of the rounds of one run *)

\* the indices of the dataset without a ledger entry
IndicesWithoutEntry == { i \in 0..(dataset_len - 1) : ~HasEntry(i) }

\* the first round of this run has run to its end
FirstRoundOver == round_count >= 1

\* C32: within one run, whenever the first outer round runs to its end,
\* every index in [0, N) has a ledger entry (an answer or an error result),
\* so the second round finds an empty unfinished list and returns;
\* consequently each dataset item is processed at most once per run,
\* whatever the value of max_retries.
C32_OneRoundDoesAllTheWork ==
    /\ FirstRoundOver
          => /\ IndicesWithoutEntry = {}
             /\ round_count = 1
             /\ pc \in { "round_start", "returned" }
             /\ pc = "returned" /\ max_retries > 1 => todo_list = << >>
    /\ (pc = "load" \/ InItem) => round_count = 0
    /\ \A i, j \in 1..Len(processed) : processed[i] = processed[j] => i = j

\* run() has returned from its second round, which found nothing to do,
\* although an item of the first round ended in an error result
C32_Witness ==
    /\ pc = "returned"
    /\ round_count = 1
    /\ max_retries = MaxRetries
    /\ dataset_len = MaxItems
    /\ todo_list = << >>
    /\ \E i \in 0..(dataset_len - 1) :
          IsErrorPrediction(EntryOf(ledger.results, i).prediction)


-----------------------------------------------------------------------------
(* Properties of what the INTEGRATE call is given *)

\* the log holds a step of that kind in pass it
Logged(call, it) == CallsOf(call, it) > 0

\* the review of pass it was made and did not state convergence
Unconverged(it) ==
    \E k \in 1..Len(log) :
        log[k].call = "REVIEW" /\ log[k].it = it /\ log[k].ok /\ ~log[k].phrase

\* the review of pass it carried a section for the diagnostic specialist
DiagnosticFeedbackIn(it) ==
    \E k \in 1..Len(log) :
        log[k].call = "REVIEW" /\ log[k].it = it /\ log[k].ok /\ log[k].fd

\* the pass of the last review in the log
LastPass ==
    CHOOSE it \in 0..(3 - 1) :
        /\ Logged("REVIEW", it)
        /\ \A later \in 0..(3 - 1) : Logged("REVIEW", later) => later <= it

\* the loop over the passes has been left and INTEGRATE is about to be
\* called: the opinions and the diagnosis are those of the last pass made
HeldAfterLastPass ==
    pc = "integrate" =>
        /\ Logged("REVIEW", 0)
        /\ (Unconverged(LastPass) /\ DiagnosticFeedbackIn(LastPass))
              => Logged("REASSESS", LastPass)
        /\ Logged("REASSESS", LastPass)
              => /\ log[Len(log)].call = "REASSESS"
                 /\ expert_diagnosis = << "reassessed diagnosis" >>
        /\ Logged("RETHINK", LastPass)
              => \E i \in 1..Len(experts_opinions) :
                    experts_opinions[i] = "revised finding"
        /\ (\A it \in 0..(3 - 1) : ~Logged("REASSESS", it))
              => expert_diagnosis = << "diagnosis" >>
        /\ Unconverged(LastPass) => LastPass = 3 - 1
        /\ \A k \in 1..Len(log) :
              log[k].call \in { "RETHINK", "REASSESS" } /\ log[k].it = 3 - 1
                  => \A later \in (k + 1)..Len(log) : log[later].call # "REVIEW"

\* the INTEGRATE call made in this step is given the opinions, a blank
\* line and the diagnosis, in that order, as they are held before the step
IntegrateGetsWhatIsHeld ==
    \A k \in 1..Len(log') :
        (k > Len(log) /\ log'[k].call = "INTEGRATE" /\ log'[k].ok)
            => /\ pc = "integrate"
               /\ log'[k].input
                      = experts_opinions \o << "\n", "\n" >> \o expert_diagnosis

\* C33: the opinions and the diagnosis given to the INTEGRATE call are
\* exactly those held after the last executed review pass: when pass 2 is
\* not converged, its specialist updates and its diagnosis reassessment are
\* still performed and are passed to INTEGRATE without having been
\* reviewed; and INTEGRATE receives the concatenation opinions, blank line,
\* diagnosis in that order.
C33_IntegrateGetsLastPass ==
    []HeldAfterLastPass /\ [][IntegrateGetsWhatIsHeld]_vars

\* INTEGRATE was called after an unconverged pass 2 with a rethink call and
\* a reassessment, and was given the revised opinion and the reassessed
\* diagnosis, which no review has seen
C33_Witness ==
    /\ Unconverged(3 - 1)
    /\ Logged("RETHINK", 3 - 1)
    /\ Logged("REASSESS", 3 - 1)
    /\ \E k \in 1..Len(log) :
          /\ log[k].call = "INTEGRATE"
          /\ log[k].ok
          /\ \E i \in 1..Len(log[k].input) : log[k].input[i] = "revised finding"
          /\ log[k].input[Len(log[k].input)] = "reassessed diagnosis"


-----------------------------------------------------------------------------
(* Properties of the result list of retrieve_entity_knowledge *)

\* no element of the list occurs twice
NoTripletTwice(triplet_list) ==
    \A i, j \in 1..Len(triplet_list) :
        triplet_list[i] = triplet_list[j] => i = j

\* C34: for a store without duplicate triplets, the result of
\* retrieve_entity_knowledge(e, n) contains no triplet twice; in particular,
\* when e is itself an index key (and so is also its own most similar
\* entity) the triplets taken from its exact bucket are not returned a
\* second time by the similarity step.
C34_NoTripletReturnedTwice ==
    (/\ pc = "answered"
     /\ kb_call.op = "retrieve_entity_knowledge"
     /\ NoTripletTwice(triplets))
        => NoTripletTwice(kb_call.result)


-----------------------------------------------------------------------------
(* Properties of the triplets retrieve_relationship_knowledge returns *)

\* the two strings share a non-empty substring, upper and lower case taken
\* as the same: they have a character in common
ShareSubstring(a, b) ==
    \E i \in 1..Len(a), j \in 1..Len(b) : LowerChar(a[i]) = LowerChar(b[j])

\* C35: every triplet returned by retrieve_relationship_knowledge has a
\* predicate that shares a non-empty substring with the query predicate,
\* and a subject or object that shares a non-empty substring with the query
\* subject or object; a query whose predicate is the empty string (as
\* produced for a scene-graph relationship without a 'predicate' field)
\* matches no triplet on the predicate condition.
C35_ReturnedTripletsShareSubstrings ==
    (pc = "answered" /\ kb_call.op = "retrieve_relationship_knowledge")
        => /\ \A i \in 1..Len(kb_call.result) :
                 /\ ShareSubstring(kb_call.result[i][2], kb_call.predicate)
                 /\ \/ ShareSubstring(kb_call.result[i][1], kb_call.entity)
                    \/ ShareSubstring(kb_call.result[i][1], kb_call.obj)
                    \/ ShareSubstring(kb_call.result[i][3], kb_call.entity)
                    \/ ShareSubstring(kb_call.result[i][3], kb_call.obj)
           /\ kb_call.predicate = << >> => kb_call.result = << >>

\* the part of C35 about queries with a non-empty predicate and non-empty
\* stored strings
C35_NonEmptyStrings ==
    (/\ pc = "answered"
     /\ kb_call.op = "retrieve_relationship_knowledge"
     /\ kb_call.predicate # << >>)
        => \A i \in 1..Len(kb_call.result) :
              /\ ShareSubstring(kb_call.result[i][2], kb_call.predicate)
              /\ \/ ShareSubstring(kb_call.result[i][1], kb_call.entity)
                 \/ ShareSubstring(kb_call.result[i][3], kb_call.obj)

====
